---- MODULE Spec2Model ----
(***************************************************************************)
(* State-machine model of the vpnv4 allocation / rendering /               *)
(* reconciliation core: DeterministicAllocator (allocator.py),             *)
(* TenantContext (config.py), FRRConfigRenderer (frr.py) and               *)
(* VPNv4RouteDriver (driver.py).                                           *)
(*                                                                         *)
(* A Python str is modelled as the sequence of its lines (the text split   *)
(* on "\n"); the empty str is the empty sequence.  "\n".join(xs) is then   *)
(* the concatenation of the line sequences of xs.  A dict is a function    *)
(* whose DOMAIN is the key set; the tenant dict, whose iteration order the *)
(* renderer depends on, is a sequence of TenantContext records in          *)
(* insertion order.                                                        *)
(***************************************************************************)
EXTENDS Integers, Sequences, FiniteSets, TLC

(***************************************************************************)
(* Bounds and inputs                                                       *)
(***************************************************************************)
\* exclusive upper bound of identifiers (max_id of the allocator)
MaxId == 2
\* longest prefix sequence handed to a Driver operation
MaxLen == 2

\* namespaces the Driver is called with
Namespaces == {"tenant-a", "tenant-b"}
\* namespaces the allocator is called with (the Driver's, plus one that only
\* another user of the same allocator instance allocates)
AllocNamespaces == Namespaces \cup {"tenant-c"}
Prefixes == {"10.244.0.0/24", "10.244.1.0/24"}

\* all sequences over S of length <= n
RECURSIVE SeqsUpTo(_, _)
SeqsUpTo(S, n) ==
    IF n = 0 THEN {<<>>}
    ELSE LET shorter == SeqsUpTo(S, n - 1)
         IN  shorter \cup {Append(s, x) : s \in shorter, x \in S}

PrefixInputs == SeqsUpTo(Prefixes, MaxLen)

\* An Optional value: None, or Some(x) holding x
None == <<>>
Some(x) == <<x>>
Get(o) == o[1]
\* the namespace argument of a call that takes none
NoNamespace == ""
NoError == "none"
AllocatorExhausted == "RuntimeError: Allocator exhausted identifier space"
OSError == "OSError"
AttributeError == "AttributeError: 'TenantContext' object has no attribute 'set_prefixes'"

(***************************************************************************)
(* GlobalConfig used by the Driver (the one of tests/unit/test_driver.py)  *)
(***************************************************************************)
VPNV4 == "VPNV4"
VPNV6 == "VPNV6"

config ==
    [ local_asn   |-> 65000,
      router_id   |-> "10.0.0.2",
      rd_base     |-> 65000,
      rt_base     |-> 65000,
      neighbours  |-> << [ address     |-> "172.31.100.11",
                           remote_asn  |-> 65100,
                           families    |-> <<VPNV4>>,
                           description |-> None ] >>,
      export_ipv6 |-> FALSE ]

\* VPNv4RouteDriver.__init__ default
include_globals == FALSE

(***************************************************************************)
(* Generic sequence helpers                                                *)
(***************************************************************************)
Range(s) == {s[i] : i \in 1..Len(s)}

\* concatenation of a sequence of sequences
RECURSIVE Flatten(_)
Flatten(ss) == IF ss = <<>> THEN <<>> ELSE Head(ss) \o Flatten(Tail(ss))

\* "\n".join(parts), each part a str (sequence of lines)
JoinLines(parts) == Flatten(parts)

\* list(dict.fromkeys(xs)): first occurrences, in order
RECURSIVE dict_fromkeys(_)
dict_fromkeys(xs) ==
    IF xs = <<>> THEN <<>>
    ELSE LET init == dict_fromkeys(SubSeq(xs, 1, Len(xs) - 1))
             last == xs[Len(xs)]
         IN  IF last \in Range(init) THEN init ELSE Append(init, last)

\* list.remove(x): drops the first occurrence of x (x is in xs)
RECURSIVE list_remove(_, _)
list_remove(xs, x) ==
    IF xs = <<>> THEN <<>>
    ELSE IF Head(xs) = x THEN Tail(xs)
    ELSE <<Head(xs)>> \o list_remove(Tail(xs), x)

(***************************************************************************)
(* DeterministicAllocator                                                  *)
(***************************************************************************)
\* int.from_bytes(sha256(namespace).digest()[:2], "big")
Digest16 ==
    [ n \in AllocNamespaces |->
        CASE n = "tenant-a" -> 32935
          [] n = "tenant-b" -> 57195
          [] n = "tenant-c" -> 15496 ]

_hash_namespace(namespace) == Digest16[namespace] % MaxId

_format_rd(identifier) == ToString(config.rd_base) \o ":" \o ToString(identifier)
_format_rt(identifier) == ToString(config.rt_base) \o ":" \o ToString(identifier)

Allocation(identifier) ==
    [ rd        |-> _format_rd(identifier),
      import_rt |-> _format_rt(identifier),
      export_rt |-> _format_rt(identifier) ]

\* a loop that raises as soon as the hashed identifier is bound to another
\* namespace
ProbeGivesUp(candidate, start, namespace, rev) ==
    IF candidate \in DOMAIN rev /\ rev[candidate] # namespace
    THEN MaxId
    ELSE candidate

\* The identifiers the probing loop of allocate tests, in the order it tests
\* them, from candidate on.
RECURSIVE ProbeTrail(_, _, _, _)
ProbeTrail(candidate, start, namespace, rev) ==
    IF candidate \in DOMAIN rev /\ rev[candidate] # namespace
    THEN LET next == (candidate + 1) % MaxId
         IN  IF next = start THEN << candidate >>
             ELSE << candidate >> \o ProbeTrail(next, start, namespace, rev)
    ELSE << candidate >>

\* The probing loop of allocate: the identifier it leaves the loop with, or
\* MaxId when the loop raises.
RECURSIVE Probe(_, _, _, _)
Probe(candidate, start, namespace, rev) ==
    IF candidate \in DOMAIN rev /\ rev[candidate] # namespace
    THEN LET next == (candidate + 1) % MaxId
         IN  IF next = start THEN MaxId ELSE Probe(next, start, namespace, rev)
    ELSE candidate

\* dict[key] = value
dict_set(d, key, value) ==
    [k \in DOMAIN d \cup {key} |-> IF k = key THEN value ELSE d[k]]

\* a probing loop that looks for a free slot and passes the namespace's own
RECURSIVE ProbeFree(_, _, _)
ProbeFree(candidate, start, rev) ==
    IF candidate \in DOMAIN rev
    THEN LET next == (candidate + 1) % MaxId
         IN  IF next = start THEN MaxId ELSE ProbeFree(next, start, rev)
    ELSE candidate

\* allocate without the early return for a registered namespace, probing for
\* a free slot every time
AllocateReprobes(namespace, reg, rev) ==
    LET start     == _hash_namespace(namespace)
        candidate == ProbeFree(start, start, rev)
    IN  IF candidate = MaxId
        THEN [error |-> AllocatorExhausted, result |-> None,
              registry |-> reg, reverse |-> rev]
        ELSE [error |-> NoError, result |-> Some(Allocation(candidate)),
              registry |-> dict_set(reg, namespace, Allocation(candidate)),
              reverse  |-> dict_set(rev, candidate, namespace)]

\* allocate that takes the hashed slot without probing
AllocateNoProbe(namespace, reg, rev) ==
    IF namespace \in DOMAIN reg
    THEN [error |-> NoError, result |-> Some(reg[namespace]),
          registry |-> reg, reverse |-> rev]
    ELSE LET candidate == _hash_namespace(namespace)
         IN  [error |-> NoError, result |-> Some(Allocation(candidate)),
              registry |-> dict_set(reg, namespace, Allocation(candidate)),
              reverse  |-> dict_set(rev, candidate, namespace)]

\* allocate that binds the namespace before it finds the space exhausted
AllocateBindsBeforeRaise(namespace, reg, rev) ==
    IF namespace \in DOMAIN reg
    THEN [error |-> NoError, result |-> Some(reg[namespace]),
          registry |-> reg, reverse |-> rev]
    ELSE LET start     == _hash_namespace(namespace)
             candidate == Probe(start, start, namespace, rev)
         IN  IF candidate = MaxId
             THEN [error |-> AllocatorExhausted, result |-> None,
                   registry |-> dict_set(reg, namespace, Allocation(start)),
                   reverse  |-> rev]
             ELSE [error |-> NoError, result |-> Some(Allocation(candidate)),
                   registry |-> dict_set(reg, namespace, Allocation(candidate)),
                   reverse  |-> dict_set(rev, candidate, namespace)]

\* DeterministicAllocator.allocate on allocator state (reg, rev): the error
\* raised (or NoError), the value returned and the state it leaves.
Allocate(namespace, reg, rev) ==
    IF namespace \in DOMAIN reg
    THEN [error |-> NoError, result |-> Some(reg[namespace]),
          registry |-> reg, reverse |-> rev]
    ELSE LET start     == _hash_namespace(namespace)
             candidate == Probe(start, start, namespace, rev)
         IN  IF candidate = MaxId
             THEN [error |-> AllocatorExhausted, result |-> None,
                   registry |-> reg, reverse |-> rev]
             ELSE [error |-> NoError, result |-> Some(Allocation(candidate)),
                   registry |-> dict_set(reg, namespace, Allocation(candidate)),
                   reverse  |-> dict_set(rev, candidate, namespace)]


(***************************************************************************)
(* VRFDefinition and TenantContext                                         *)
(***************************************************************************)
\* a VRF that imports both route targets of the allocation
VRFDefinition_both_rts(name, allocation) ==
    [ name       |-> name,
      rd         |-> allocation.rd,
      import_rts |-> <<allocation.import_rt, allocation.export_rt>>,
      export_rts |-> <<allocation.export_rt>>,
      label      |-> 0 ]

VRFDefinition(name, allocation) ==
    [ name       |-> name,
      rd         |-> allocation.rd,
      import_rts |-> <<allocation.import_rt>>,
      export_rts |-> <<allocation.export_rt>>,
      label      |-> 0 ]

TenantContext(namespace, vrf) ==
    [ namespace |-> namespace, vrf |-> vrf, advertised_prefixes |-> <<>> ]

\* TenantContext.add_prefixes: the new advertised_prefixes
add_prefixes(advertised, prefixes) ==
    LET missing == SelectSeq(prefixes, LAMBDA p : p \notin Range(advertised))
    IN  advertised \o missing

\* TenantContext.withdraw_prefixes: the new advertised_prefixes
RECURSIVE tenant_withdraw_prefixes(_, _)
tenant_withdraw_prefixes(advertised, prefixes) ==
    IF prefixes = <<>> THEN advertised
    ELSE tenant_withdraw_prefixes(
             IF Head(prefixes) \in Range(advertised)
             THEN list_remove(advertised, Head(prefixes))
             ELSE advertised,
             Tail(prefixes))

(***************************************************************************)
(* FRRConfigRenderer                                                       *)
(***************************************************************************)
FRR_HEADER ==
    << "!",
       "frr version 9.x",
       "frr defaults traditional",
       "service integrated-vtysh-config",
       "!",
       "" >>

OutputPath == "vpnv4.conf"

NetworkLine(prefix) == "  network " \o prefix
NoPrefixesLine == "  ! no prefixes advertised yet"
VrfHeaderLine(cfg, name) ==
    "router bgp " \o ToString(cfg.local_asn) \o " vrf " \o name

\* a VRF block that carries the placeholder line whatever the prefixes
_render_bgp_vrf_block_placeholder(cfg, vrf, prefixes) ==
    << VrfHeaderLine(cfg, vrf.name),
       " no bgp network import-check",
       " !",
       " address-family ipv4 unicast",
       "  export vpn",
       "  import vpn",
       "  redistribute static",
       "  rd vpn export " \o vrf.rd >>
    \o [i \in 1..Len(vrf.import_rts) |-> "  route-target vpn import " \o vrf.import_rts[i]]
    \o [i \in 1..Len(vrf.export_rts) |-> "  route-target vpn export " \o vrf.export_rts[i]]
    \o [i \in 1..Len(prefixes) |-> NetworkLine(prefixes[i])]
    \o << NoPrefixesLine, " exit-address-family", "!" >>

_render_bgp_vrf_block(cfg, vrf, prefixes) ==
    << VrfHeaderLine(cfg, vrf.name),
       " no bgp network import-check",
       " !",
       " address-family ipv4 unicast",
       "  export vpn",
       "  import vpn",
       "  redistribute static",
       "  rd vpn export " \o vrf.rd >>
    \o [i \in 1..Len(vrf.import_rts) |-> "  route-target vpn import " \o vrf.import_rts[i]]
    \o [i \in 1..Len(vrf.export_rts) |-> "  route-target vpn export " \o vrf.export_rts[i]]
    \o (IF prefixes # <<>>
        THEN [i \in 1..Len(prefixes) |-> NetworkLine(prefixes[i])]
        ELSE <<NoPrefixesLine>>)
    \o << " exit-address-family", "!" >>

_render_vrfs(cfg, tenants) ==
    JoinLines([i \in 1..Len(tenants) |->
                  _render_bgp_vrf_block(cfg, tenants[i].vrf,
                                        tenants[i].advertised_prefixes)])

_render_neighbor_block(cfg, neighbour) ==
    << " neighbor " \o neighbour.address \o " remote-as "
         \o ToString(neighbour.remote_asn) >>
    \o (IF neighbour.description # None /\ Get(neighbour.description) # ""
        THEN << " neighbor " \o neighbour.address \o " description "
                  \o Get(neighbour.description) >>
        ELSE <<>>)
    \o (IF VPNV4 \in Range(neighbour.families)
        THEN << "!",
                " address-family ipv4 vpn",
                "  neighbor " \o neighbour.address \o " activate",
                "  neighbor " \o neighbour.address \o " send-community extended",
                " exit-address-family" >>
        ELSE <<>>)
    \o (IF VPNV6 \in Range(neighbour.families) /\ cfg.export_ipv6
        THEN << "!",
                " address-family ipv6 vpn",
                "  neighbor " \o neighbour.address \o " activate",
                "  neighbor " \o neighbour.address \o " send-community extended",
                " exit-address-family" >>
        ELSE <<>>)

_render_neighbors(cfg, neighbours) ==
    << "router bgp " \o ToString(cfg.local_asn),
       " bgp router-id " \o cfg.router_id,
       " no bgp default ipv4-unicast" >>
    \o Flatten([i \in 1..Len(neighbours) |->
                   _render_neighbor_block(cfg, neighbours[i])])

_render_route_maps ==
    << "route-map vpnv4-import permit 10",
       " !",
       "route-map vpnv4-export permit 10",
       " !" >>

\* a render that emits the route-map stanzas only with the global sections
render_body_maps_with_globals(cfg, globals, tenants) ==
    LET vrfs == _render_vrfs(cfg, tenants)
        sections ==
            (IF globals
             THEN << FRR_HEADER, _render_neighbors(cfg, cfg.neighbours) >>
             ELSE <<>>)
            \o (IF vrfs # <<>> THEN <<vrfs>> ELSE <<>>)
            \o (IF globals
                THEN (IF cfg.neighbours # <<>> THEN <<_render_route_maps>> ELSE <<>>)
                     \o << <<"line vty">>, <<"!">> >>
                ELSE <<>>)
    IN  JoinLines(SelectSeq(sections, LAMBDA s : s # <<>>))

\* a render that puts the route-map stanzas before the VRF blocks
render_body_maps_first(cfg, globals, tenants) ==
    LET vrfs == _render_vrfs(cfg, tenants)
        sections ==
            (IF globals
             THEN << FRR_HEADER, _render_neighbors(cfg, cfg.neighbours) >>
             ELSE <<>>)
            \o (IF cfg.neighbours # <<>> THEN <<_render_route_maps>> ELSE <<>>)
            \o (IF vrfs # <<>> THEN <<vrfs>> ELSE <<>>)
            \o (IF globals THEN << <<"line vty">>, <<"!">> >> ELSE <<>>)
    IN  JoinLines(SelectSeq(sections, LAMBDA s : s # <<>>))

\* FRRConfigRenderer.render: the body text
render_body(cfg, globals, tenants) ==
    LET vrfs == _render_vrfs(cfg, tenants)
        sections ==
            (IF globals
             THEN << FRR_HEADER, _render_neighbors(cfg, cfg.neighbours) >>
             ELSE <<>>)
            \o (IF vrfs # <<>> THEN <<vrfs>> ELSE <<>>)
            \o (IF globals
                THEN (IF cfg.neighbours # <<>> THEN <<_render_route_maps>> ELSE <<>>)
                     \o << <<"line vty">>, <<"!">> >>
                ELSE IF cfg.neighbours # <<>> THEN <<_render_route_maps>>
                ELSE <<>>)
    IN  JoinLines(SelectSeq(sections, LAMBDA s : s # <<>>))

RenderResult(text) == [ config_text |-> text, output_path |-> OutputPath ]

(***************************************************************************)
(* State                                                                   *)
(***************************************************************************)
VARIABLES
    registry,     \* DeterministicAllocator._registry : namespace -> Allocation
    reverse,      \* DeterministicAllocator._reverse  : identifier -> namespace
    tenants,      \* DriverState.tenants, in dict insertion order
    last_render,  \* DriverState.last_render : RenderResult or None
    file,         \* content of <output_dir>/vpnv4.conf, None while absent
    call,         \* the call that has just ended (NoCall once the caller
                  \* has taken its outcome): operation, namespace, outcome
    prev,         \* history: summary of the call before that one
    first_alloc,  \* history: namespace -> what its first allocate returned
    seen_vrf,     \* history: namespace -> VRFs of every context created for it
    watched,      \* history: one earlier render, its tenant list and its text
    renderer,     \* FRRConfigRenderer._config and ._include_globals
    maintain_empty_vrf,  \* VPNv4DriverAdapter._maintain_empty_vrf
    _drivers,     \* DriverRegistry._drivers, in dict insertion order
    dispatch,     \* the DriverRegistry call under way or just ended
    released,     \* history: the names unregister has removed
    tenants_file, \* what the file at FileNamespaceWatcher._path holds
    _state,       \* FileNamespaceWatcher._state, in dict insertion order
    emitted,      \* the events the poll just ended handed to registry.handle
    pc,           \* where each thread of the agent is
    stop,         \* the agent's stop_event
    twin,         \* a second allocator instance, and what both were asked
    writable,     \* whether output_dir can be made and vpnv4.conf written
    _current,     \* NamespaceAggregator._current, in dict insertion order
    _namespace_ips,  \* VPNv4UpstreamDriver._namespace_ips, in insertion order
    local         \* the locals of each thread inside a Driver operation

\* the file system under the renderer, the OVN watcher's aggregator, the
\* upstream driver and the threads inside the Driver
otherVars == << writable, _current, _namespace_ips, local >>

\* the state of what is built around the Driver
agentVars == << otherVars, maintain_empty_vrf, _drivers, dispatch, released,
               tenants_file, _state, emitted, pc, stop, twin >>

vars == << registry, reverse, tenants, last_render, file, call, prev,
           first_alloc, seen_vrf, watched, renderer, maintain_empty_vrf,
           _drivers, dispatch, released, tenants_file, _state, emitted, pc,
           stop, twin, writable, _current, _namespace_ips, local >>

EmptyDict == [k \in {} |-> None]

\* events.py
NamespaceUpsert(namespace, prefixes) ==
    [ kind |-> "NamespaceUpsert", namespace |-> namespace,
      prefixes |-> prefixes ]
NamespaceDelete(namespace) ==
    [ kind |-> "NamespaceDelete", namespace |-> namespace, prefixes |-> <<>> ]
\* an object that is neither
OtherEvent == [ kind |-> "object", namespace |-> NoNamespace, prefixes |-> <<>> ]

\* The record of a DriverRegistry call: the operation, its name argument, its
\* event argument, the error it raised, the registrations handle has still to
\* call, and the registrations whose driver it has called, in call order.
Dispatch(op, name, event, error, pending, reached) ==
    [ op |-> op, name |-> name, event |-> event, error |-> error,
      pending |-> pending, reached |-> reached ]

NoDispatch == Dispatch("", "", OtherEvent, NoError, <<>>, <<>>)

\* a second allocator instance that has been asked nothing
NoTwin == [ asked |-> <<>>, registry |-> EmptyDict, reverse |-> EmptyDict,
            answered |-> <<>> ]

\* a writable output directory, no OVN watcher, no upstream driver, no thread
\* inside the Driver
Apart ==
    /\ writable = TRUE
    /\ _current = <<>>
    /\ _namespace_ips = <<>>
    /\ local = EmptyDict

\* the Driver on its own: the adapter as build_vpnv4_adapter makes it, no
\* driver registered, no watcher, no thread
Standalone ==
    /\ Apart
    /\ maintain_empty_vrf = TRUE
    /\ _drivers = <<>>
    /\ dispatch = NoDispatch
    /\ released = {}
    /\ tenants_file = None
    /\ _state = <<>>
    /\ emitted = <<>>
    /\ pc = EmptyDict
    /\ stop = FALSE
    /\ twin = NoTwin

\* The record of a call: the operation, its namespace argument, the error it
\* raised (NoError when it returned), whether it rendered, what it created for
\* the namespace (a Driver operation: a tenant context, "first" for a
\* namespace that never had one and "again" for one that had; allocate: a
\* binding, "first"; "no" when nothing was created), and the value it returned.
Call(op, namespace, error, rendered, created, result) ==
    [ op |-> op, namespace |-> namespace, error |-> error,
      rendered |-> rendered, created |-> created, result |-> result ]

\* no call has ended that the caller has not taken the outcome of
NoCall == Call("", NoNamespace, NoError, FALSE, "no", None)

\* what `prev` keeps of a call
Summary(c) == [ op |-> c.op, namespace |-> c.namespace, error |-> c.error ]

\* namespace in self._state.tenants
Known(ts, namespace) == \E i \in 1..Len(ts) : ts[i].namespace = namespace

\* self._state.tenants[namespace]
TenantOf(ts, namespace) ==
    ts[CHOOSE i \in 1..Len(ts) : ts[i].namespace = namespace]

\* the advertised_prefixes of namespace; empty when it has no context
StoredPrefixes(ts, namespace) ==
    IF Known(ts, namespace) THEN TenantOf(ts, namespace).advertised_prefixes
    ELSE <<>>

\* the tenant dict with the entry of namespace replaced in place
WithPrefixes(ts, namespace, advertised) ==
    [i \in 1..Len(ts) |->
        IF ts[i].namespace = namespace
        THEN [ts[i] EXCEPT !.advertised_prefixes = advertised]
        ELSE ts[i]]

\* self._state.tenants.pop(namespace): the remaining dict
Popped(ts, namespace) == SelectSeq(ts, LAMBDA t : t.namespace # namespace)

\* VPNv4RouteDriver.list_tenants
list_tenants == tenants

\* VPNv4RouteDriver.get_rendered_config
get_rendered_config ==
    IF last_render # None THEN Some(Get(last_render).config_text) ELSE None

\* the text FRRConfigRenderer.render produces for a tenant list
RenderOf(ts) == render_body(renderer.config, renderer.include_globals, ts)

Init ==
    /\ registry = EmptyDict
    /\ reverse = EmptyDict
    /\ tenants = <<>>
    /\ last_render = None
    /\ file = None
    /\ call = NoCall
    /\ prev = Summary(NoCall)
    /\ first_alloc = EmptyDict
    /\ seen_vrf = [n \in Namespaces |-> {}]
    /\ watched = None
    /\ renderer = [ config |-> config, include_globals |-> include_globals ]
    /\ Standalone

(***************************************************************************)
(* VPNv4RouteDriver: what each operation does to (tenants, allocator)      *)
(***************************************************************************)
\* ensure_namespace that registers the context before it asks the allocator,
\* and leaves it registered when allocate raises
EnsureNamespaceRegistersFirst(namespace, ts, reg, rev) ==
    IF Known(ts, namespace)
    THEN [error |-> NoError, tenants |-> ts, registry |-> reg, reverse |-> rev,
          allocated |-> None, created |-> FALSE]
    ELSE LET a == Allocate(namespace, reg, rev)
             pending == Allocation(_hash_namespace(namespace))
         IN  IF a.error # NoError
             THEN [error |-> a.error,
                   tenants |-> Append(ts, TenantContext(namespace,
                                          VRFDefinition(namespace, pending))),
                   registry |-> reg, reverse |-> rev,
                   allocated |-> None, created |-> FALSE]
             ELSE [error |-> NoError,
                   tenants |-> Append(ts, TenantContext(namespace,
                                          VRFDefinition(namespace, Get(a.result)))),
                   registry |-> a.registry, reverse |-> a.reverse,
                   allocated |-> a.result, created |-> TRUE]

\* ensure_namespace: error raised, the state it leaves, what allocate returned
\* (None when it was not called) and whether a context was created
EnsureNamespace(namespace, ts, reg, rev) ==
    IF Known(ts, namespace)
    THEN [error |-> NoError, tenants |-> ts, registry |-> reg, reverse |-> rev,
          allocated |-> None, created |-> FALSE]
    ELSE LET a == Allocate(namespace, reg, rev)
         IN  IF a.error # NoError
             THEN [error |-> a.error, tenants |-> ts, registry |-> reg,
                   reverse |-> rev, allocated |-> None, created |-> FALSE]
             ELSE [error |-> NoError,
                   tenants |-> Append(ts, TenantContext(namespace,
                                          VRFDefinition(namespace, Get(a.result)))),
                   registry |-> a.registry, reverse |-> a.reverse,
                   allocated |-> a.result, created |-> TRUE]

\* history variables after the allocator answered `allocated` for namespace
\* and a context was (or was not) created
RecordHistory(namespace, allocated, created, ts) ==
    /\ first_alloc' =
          IF allocated # None /\ namespace \notin DOMAIN first_alloc
          THEN dict_set(first_alloc, namespace, Get(allocated))
          ELSE first_alloc
    /\ seen_vrf' =
          IF created
          THEN [seen_vrf EXCEPT ![namespace] = @ \cup {TenantOf(ts, namespace).vrf}]
          ELSE seen_vrf

\* the `created` field of the record of a call on namespace
Created(namespace, created) ==
    IF ~created THEN "no"
    ELSE IF seen_vrf[namespace] = {} THEN "first" ELSE "again"

\* a render whose write appends to the file instead of replacing its content
RenderAppends(ts) ==
    LET text == RenderOf(ts)
    IN  /\ last_render' = Some(RenderResult(text))
        /\ file' = Some((IF file = None THEN <<>> ELSE Get(file)) \o text)

\* what a write_text that raised can leave of the file: what was there (the
\* open or the mkdir before it failed), or nothing (the open truncated it)
FailedWrite == {file, Some(<<>>)}

\* a render that stores its result before the renderer has written the file
RenderStoresFirst(ts) ==
    LET text == RenderOf(ts)
    IN  /\ last_render' = Some(RenderResult(text))
        /\ IF writable THEN file' = Some(text) ELSE file' \in FailedWrite

\* VPNv4RouteDriver.render: runs the renderer over the tenant list ts, which
\* makes the directory and writes the file, and stores the result; when the
\* renderer raises nothing is stored
Render(ts) ==
    LET text == RenderOf(ts)
    IN  IF writable
        THEN /\ last_render' = Some(RenderResult(text))
             /\ file' = Some(text)
        ELSE /\ last_render' = last_render
             /\ file' \in FailedWrite

\* the record of a call that ran Render: the renderer's OSError leaves the
\* operation through every frame, none of which catches it
Rendering(c) ==
    IF writable THEN c
    ELSE [c EXCEPT !.error = OSError, !.rendered = FALSE, !.result = None]

NoRender == UNCHANGED << last_render, file >>

\* an operation is called by a caller that holds no outcome it has not taken
Calling ==
    /\ call = NoCall
    /\ UNCHANGED << prev, watched, renderer >>
    /\ UNCHANGED agentVars

(***************************************************************************)
(* Operations                                                              *)
(***************************************************************************)
\* DeterministicAllocator.allocate, called on the allocator instance
allocate(namespace) ==
    /\ Calling
    /\ LET a == Allocate(namespace, registry, reverse)
       IN  /\ registry' = a.registry
           /\ reverse' = a.reverse
           /\ first_alloc' =
                 IF a.error = NoError /\ namespace \notin DOMAIN first_alloc
                 THEN dict_set(first_alloc, namespace, Get(a.result))
                 ELSE first_alloc
           /\ call' = Call("allocate", namespace, a.error, FALSE,
                           IF a.error = NoError /\ namespace \notin DOMAIN registry
                           THEN "first" ELSE "no",
                           a.result)
           /\ UNCHANGED << tenants, last_render, file, seen_vrf >>

\* ensure_namespace that renders when it has created a context
ensure_namespace_renders(namespace) ==
    /\ Calling
    /\ LET e == EnsureNamespace(namespace, tenants, registry, reverse)
       IN  /\ tenants' = e.tenants
           /\ registry' = e.registry
           /\ reverse' = e.reverse
           /\ RecordHistory(namespace, e.allocated, e.created, e.tenants)
           /\ IF e.created THEN Render(e.tenants) ELSE NoRender
           /\ call' = Call("ensure_namespace", namespace, e.error, e.created,
                           Created(namespace, e.created),
                           IF e.error = NoError
                           THEN Some(TenantOf(e.tenants, namespace))
                           ELSE None)

ensure_namespace(namespace) ==
    /\ Calling
    /\ LET e == EnsureNamespace(namespace, tenants, registry, reverse)
       IN  /\ tenants' = e.tenants
           /\ registry' = e.registry
           /\ reverse' = e.reverse
           /\ RecordHistory(namespace, e.allocated, e.created, e.tenants)
           /\ NoRender
           /\ call' = Call("ensure_namespace", namespace, e.error, FALSE,
                           Created(namespace, e.created),
                           IF e.error = NoError
                           THEN Some(TenantOf(e.tenants, namespace))
                           ELSE None)

\* withdraw_namespace that also gives the identifier back to the allocator
withdraw_namespace_reclaims(namespace) ==
    /\ Calling
    /\ IF Known(tenants, namespace)
       THEN /\ tenants' = Popped(tenants, namespace)
            /\ Render(Popped(tenants, namespace))
            /\ registry' = [n \in DOMAIN registry \ {namespace} |-> registry[n]]
            /\ reverse' = [i \in {j \in DOMAIN reverse : reverse[j] # namespace}
                             |-> reverse[i]]
            /\ call' = Call("withdraw_namespace", namespace, NoError, TRUE, "no",
                            Some(TenantOf(tenants, namespace)))
            /\ UNCHANGED << first_alloc, seen_vrf >>
       ELSE /\ call' = Call("withdraw_namespace", namespace, NoError, FALSE, "no",
                            None)
            /\ UNCHANGED << registry, reverse, tenants, last_render, file,
                            first_alloc, seen_vrf >>

\* withdraw_namespace that renders before it pops the tenant
withdraw_namespace_renders_first(namespace) ==
    /\ Calling
    /\ IF Known(tenants, namespace)
       THEN /\ tenants' = Popped(tenants, namespace)
            /\ Render(tenants)
            /\ call' = Call("withdraw_namespace", namespace, NoError, TRUE, "no",
                            Some(TenantOf(tenants, namespace)))
            /\ UNCHANGED << registry, reverse, first_alloc, seen_vrf >>
       ELSE /\ call' = Call("withdraw_namespace", namespace, NoError, FALSE, "no",
                            None)
            /\ UNCHANGED << registry, reverse, tenants, last_render, file,
                            first_alloc, seen_vrf >>

withdraw_namespace(namespace) ==
    /\ Calling
    /\ IF Known(tenants, namespace)
       THEN /\ tenants' = Popped(tenants, namespace)
            /\ Render(Popped(tenants, namespace))
            /\ call' = Rendering(Call("withdraw_namespace", namespace, NoError,
                                      TRUE, "no",
                                      Some(TenantOf(tenants, namespace))))
            /\ UNCHANGED << registry, reverse, first_alloc, seen_vrf >>
       ELSE /\ call' = Call("withdraw_namespace", namespace, NoError, FALSE, "no",
                            None)
            /\ UNCHANGED << registry, reverse, tenants, last_render, file,
                            first_alloc, seen_vrf >>

\* advertise_prefixes that renders only when add_prefixes changed the list
advertise_prefixes_lazy(namespace, prefixes) ==
    /\ Calling
    /\ LET e == EnsureNamespace(namespace, tenants, registry, reverse)
       IN  /\ registry' = e.registry
           /\ reverse' = e.reverse
           /\ RecordHistory(namespace, e.allocated, e.created, e.tenants)
           /\ IF e.error # NoError
              THEN /\ tenants' = e.tenants
                   /\ NoRender
                   /\ call' = Call("advertise_prefixes", namespace, e.error, FALSE,
                                   "no", None)
              ELSE LET ts == WithPrefixes(e.tenants, namespace,
                                 add_prefixes(StoredPrefixes(e.tenants, namespace),
                                              prefixes))
                       changed == ts # e.tenants
                   IN  /\ tenants' = ts
                       /\ IF changed THEN Render(ts) ELSE NoRender
                       /\ call' = Call("advertise_prefixes", namespace, NoError,
                                       changed, Created(namespace, e.created),
                                       Some(TenantOf(ts, namespace)))

advertise_prefixes(namespace, prefixes) ==
    /\ Calling
    /\ LET e == EnsureNamespace(namespace, tenants, registry, reverse)
       IN  /\ registry' = e.registry
           /\ reverse' = e.reverse
           /\ RecordHistory(namespace, e.allocated, e.created, e.tenants)
           /\ IF e.error # NoError
              THEN /\ tenants' = e.tenants
                   /\ NoRender
                   /\ call' = Call("advertise_prefixes", namespace, e.error, FALSE,
                                   "no", None)
              ELSE LET ts == WithPrefixes(e.tenants, namespace,
                                 add_prefixes(StoredPrefixes(e.tenants, namespace),
                                              prefixes))
                   IN  /\ tenants' = ts
                       /\ Render(ts)
                       /\ call' = Rendering(
                                   Call("advertise_prefixes", namespace, NoError,
                                        TRUE, Created(namespace, e.created),
                                        Some(TenantOf(ts, namespace))))

\* withdraw_prefixes without the test for an unknown namespace: it goes through
\* ensure_namespace as advertise_prefixes does
withdraw_prefixes_ensures(namespace, prefixes) ==
    /\ Calling
    /\ LET e == EnsureNamespace(namespace, tenants, registry, reverse)
       IN  /\ registry' = e.registry
           /\ reverse' = e.reverse
           /\ RecordHistory(namespace, e.allocated, e.created, e.tenants)
           /\ IF e.error # NoError
              THEN /\ tenants' = e.tenants
                   /\ NoRender
                   /\ call' = Call("withdraw_prefixes", namespace, e.error, FALSE,
                                   "no", None)
              ELSE LET ts == WithPrefixes(e.tenants, namespace,
                                 tenant_withdraw_prefixes(
                                     StoredPrefixes(e.tenants, namespace), prefixes))
                   IN  /\ tenants' = ts
                       /\ Render(ts)
                       /\ call' = Call("withdraw_prefixes", namespace, NoError,
                                       TRUE, Created(namespace, e.created),
                                       Some(TenantOf(ts, namespace)))

withdraw_prefixes(namespace, prefixes) ==
    /\ Calling
    /\ IF ~Known(tenants, namespace)
       THEN /\ call' = Call("withdraw_prefixes", namespace, NoError, FALSE, "no",
                            None)
            /\ UNCHANGED << registry, reverse, tenants, last_render, file,
                            first_alloc, seen_vrf >>
       ELSE LET ts == WithPrefixes(tenants, namespace,
                          tenant_withdraw_prefixes(
                              StoredPrefixes(tenants, namespace), prefixes))
            IN  /\ tenants' = ts
                /\ Render(ts)
                /\ call' = Rendering(Call("withdraw_prefixes", namespace, NoError,
                                          TRUE, "no",
                                          Some(TenantOf(ts, namespace))))
                /\ UNCHANGED << registry, reverse, first_alloc, seen_vrf >>

\* the early return of synchronize_prefixes replaced by a fall-through to
\* self.render()
SyncUnchangedRenders == TRUE

\* synchronize_prefixes, stored list equal to the desired one: whether the
\* call renders (it returns the tenant before it reaches self.render())
SyncUnchangedRender == FALSE

\* synchronize_prefixes.  When the desired list differs from the stored one
\* the call reaches tenant.set_prefixes(desired); TenantContext defines
\* add_prefixes and withdraw_prefixes only, so the attribute lookup raises
\* AttributeError before anything is stored or rendered.
synchronize_prefixes(namespace, prefixes) ==
    /\ Calling
    /\ LET e == EnsureNamespace(namespace, tenants, registry, reverse)
           desired == dict_fromkeys(prefixes)
       IN  /\ registry' = e.registry
           /\ reverse' = e.reverse
           /\ tenants' = e.tenants
           /\ RecordHistory(namespace, e.allocated, e.created, e.tenants)
           /\ IF e.error # NoError
              THEN /\ NoRender
                   /\ call' = Call("synchronize_prefixes", namespace, e.error,
                                   FALSE, "no", None)
              ELSE IF StoredPrefixes(e.tenants, namespace) = desired
              THEN /\ IF SyncUnchangedRender THEN Render(e.tenants) ELSE NoRender
                   /\ call' = (IF SyncUnchangedRender
                               THEN Rendering(
                                   Call("synchronize_prefixes", namespace, NoError,
                                        TRUE, Created(namespace, e.created),
                                        Some(TenantOf(e.tenants, namespace))))
                               ELSE Call("synchronize_prefixes", namespace, NoError,
                                         FALSE, Created(namespace, e.created),
                                         Some(TenantOf(e.tenants, namespace))))
              ELSE /\ NoRender
                   /\ call' = Call("synchronize_prefixes", namespace,
                                   AttributeError, FALSE,
                                   Created(namespace, e.created), None)

render ==
    /\ Calling
    /\ Render(tenants)
    /\ call' = Rendering(Call("render", NoNamespace, NoError, TRUE, "no",
                              Some(RenderResult(RenderOf(tenants)))))
    /\ UNCHANGED << registry, reverse, tenants, first_alloc, seen_vrf >>

sync ==
    /\ Calling
    /\ Render(tenants)
    /\ call' = Rendering(Call("sync", NoNamespace, NoError, TRUE, "no",
                              Some(RenderResult(RenderOf(tenants)))))
    /\ UNCHANGED << registry, reverse, tenants, first_alloc, seen_vrf >>

\* the caller takes the outcome of the call and goes on
Returned ==
    /\ call # NoCall
    /\ call' = NoCall
    /\ UNCHANGED << registry, reverse, tenants, last_render, file, prev,
                    first_alloc, seen_vrf, watched, renderer >>
    /\ UNCHANGED agentVars

\* the same, remembering which call it was
ReturnedRemembered ==
    /\ call # NoCall
    /\ call' = NoCall
    /\ prev' = Summary(call)
    /\ UNCHANGED << registry, reverse, tenants, last_render, file,
                    first_alloc, seen_vrf, watched, renderer >>
    /\ UNCHANGED agentVars

Next ==
    \/ \E n \in AllocNamespaces : allocate(n)
    \/ \E n \in Namespaces : ensure_namespace(n)
    \/ \E n \in Namespaces : withdraw_namespace(n)
    \/ \E n \in Namespaces, p \in PrefixInputs : advertise_prefixes(n, p)
    \/ \E n \in Namespaces, p \in PrefixInputs : withdraw_prefixes(n, p)
    \/ \E n \in Namespaces, p \in PrefixInputs : synchronize_prefixes(n, p)
    \/ render
    \/ sync
    \/ Returned

Spec == Init /\ [][Next]_vars

NextHistory ==
    \/ \E n \in AllocNamespaces : allocate(n)
    \/ \E n \in Namespaces : ensure_namespace(n)
    \/ \E n \in Namespaces : withdraw_namespace(n)
    \/ \E n \in Namespaces, p \in PrefixInputs : advertise_prefixes(n, p)
    \/ \E n \in Namespaces, p \in PrefixInputs : withdraw_prefixes(n, p)
    \/ \E n \in Namespaces, p \in PrefixInputs : synchronize_prefixes(n, p)
    \/ render
    \/ sync
    \/ ReturnedRemembered

\* Spec with the history variable prev kept up to date
SpecHistory == Init /\ [][NextHistory]_vars

(***************************************************************************)
(* FRRConfigRenderer used on its own, as tests/unit/test_renderer.py does  *)
(***************************************************************************)
\* the GlobalConfig of tests/unit/test_driver.py without neighbours
config_no_neighbours == [config EXCEPT !.neighbours = <<>>]

\* the constructor arguments the renderer is built with
RendererSettings ==
    { [ config |-> c, include_globals |-> g ] :
          c \in {config, config_no_neighbours}, g \in BOOLEAN }

\* a tenant context as the Driver builds it for a namespace in its hashed slot
ContextOf(namespace, prefixes) ==
    [ TenantContext(namespace,
                    VRFDefinition(namespace,
                                  Allocation(_hash_namespace(namespace))))
      EXCEPT !.advertised_prefixes = prefixes ]

\* prefix lists of the tenants handed to the renderer
RenderedPrefixLists ==
    { <<>>, <<"10.244.0.0/24">>, <<"10.244.1.0/24", "10.244.0.0/24">> }

\* tenant lists handed to the renderer: no, one or two tenants
TenantLists ==
    {<<>>}
    \cup { <<ContextOf(n, p)>> : n \in Namespaces, p \in RenderedPrefixLists }
    \cup { <<ContextOf(ns[1], p1), ContextOf(ns[2], p2)>> :
              ns \in {x \in Namespaces \X Namespaces : x[1] # x[2]},
              p1 \in RenderedPrefixLists, p2 \in RenderedPrefixLists }

\* history kept over the renders of one renderer: the first render of ts may
\* become the watched one; after it, a render of another list is noted
\* ("other"), then a render of the watched list again ("again")
Watch(ts, text) ==
    \/ /\ watched = None
       /\ watched' \in { None, Some([ tenants |-> ts, text |-> text,
                                      stage |-> "watched" ]) }
    \/ /\ watched # None
       /\ watched' =
             IF ts # Get(watched).tenants /\ Get(watched).stage = "watched"
             THEN Some([Get(watched) EXCEPT !.stage = "other"])
             ELSE IF ts = Get(watched).tenants /\ Get(watched).stage = "other"
             THEN Some([Get(watched) EXCEPT !.stage = "again"])
             ELSE watched

\* a renderer that reads back what the file holds and writes its text after it
FRRConfigRenderer_render_appends(ts) ==
    /\ call = NoCall
    /\ LET text == (IF file = None THEN <<>> ELSE Get(file)) \o RenderOf(ts)
       IN  /\ file' = Some(text)
           /\ call' = Call("FRRConfigRenderer.render", NoNamespace, NoError,
                           TRUE, "no", Some(RenderResult(text)))
           /\ Watch(ts, text)
    /\ UNCHANGED << registry, reverse, tenants, last_render, prev,
                    first_alloc, seen_vrf, renderer >>
    /\ UNCHANGED agentVars

\* FRRConfigRenderer.render(tenants)
FRRConfigRenderer_render(ts) ==
    /\ call = NoCall
    /\ LET text == RenderOf(ts)
       IN  /\ file' = Some(text)
           /\ call' = Call("FRRConfigRenderer.render", NoNamespace, NoError,
                           TRUE, "no", Some(RenderResult(text)))
           /\ Watch(ts, text)
    /\ UNCHANGED << registry, reverse, tenants, last_render, prev,
                    first_alloc, seen_vrf, renderer >>
    /\ UNCHANGED agentVars

\* the initial state with a renderer built with any of the settings
InitGlobals ==
    /\ registry = EmptyDict
    /\ reverse = EmptyDict
    /\ tenants = <<>>
    /\ last_render = None
    /\ file = None
    /\ call = NoCall
    /\ prev = Summary(NoCall)
    /\ first_alloc = EmptyDict
    /\ seen_vrf = [n \in Namespaces |-> {}]
    /\ watched = None
    /\ renderer \in RendererSettings
    /\ Standalone

NextRenderer ==
    \/ \E ts \in TenantLists : FRRConfigRenderer_render(ts)
    \/ Returned

SpecRenderer == InitGlobals /\ [][NextRenderer]_vars

\* the Driver over a renderer built with any of the settings
SpecGlobals == InitGlobals /\ [][Next]_vars

(***************************************************************************)
(* VPNv4DriverAdapter                                                      *)
(***************************************************************************)
\* VPNv4RouteDriver.__init__, with the renderer of test_driver.py
VPNv4RouteDriver_init ==
    /\ registry = EmptyDict
    /\ reverse = EmptyDict
    /\ tenants = <<>>
    /\ last_render = None
    /\ file = None
    /\ call = NoCall
    /\ prev = Summary(NoCall)
    /\ first_alloc = EmptyDict
    /\ seen_vrf = [n \in Namespaces |-> {}]
    /\ watched = None
    /\ renderer = [ config |-> config, include_globals |-> include_globals ]

\* VPNv4DriverAdapter.on_namespace_upsert
on_namespace_upsert(namespace, prefixes) ==
    IF prefixes # <<>> \/ maintain_empty_vrf
    THEN synchronize_prefixes(namespace, prefixes)
    ELSE withdraw_namespace(namespace)

\* VPNv4DriverAdapter.on_namespace_delete
on_namespace_delete(namespace) == withdraw_namespace(namespace)

\* a Driver and an adapter over it, built with either setting
InitAdapter ==
    /\ VPNv4RouteDriver_init
    /\ maintain_empty_vrf \in BOOLEAN
    /\ _drivers = <<>>
    /\ dispatch = NoDispatch
    /\ released = {}
    /\ tenants_file = None
    /\ _state = <<>>
    /\ emitted = <<>>
    /\ pc = EmptyDict
    /\ stop = FALSE
    /\ twin = NoTwin
    /\ Apart

\* the adapter's events, on a Driver that is also called directly
NextAdapter ==
    \/ \E n \in Namespaces, p \in PrefixInputs : on_namespace_upsert(n, p)
    \/ \E n \in Namespaces : on_namespace_delete(n)
    \/ \E n \in Namespaces, p \in PrefixInputs : advertise_prefixes(n, p)
    \/ Returned

SpecAdapter == InitAdapter /\ [][NextAdapter]_vars

(***************************************************************************)
(* DriverRegistry                                                          *)
(***************************************************************************)
\* names drivers are registered under
DriverNames == {"vpnv4", "audit"}
\* the drivers there are to register: the VPNv4DriverAdapter over the Driver,
\* and a NamespaceDriver that takes every event and returns
DriverObjects == {"adapter", "recorder"}
\* what handle is called with
Events ==
    {NamespaceUpsert(n, p) : n \in Namespaces, p \in PrefixInputs}
        \cup {NamespaceDelete(n) : n \in Namespaces} \cup {OtherEvent}

ValueError == "ValueError"
TypeError == "TypeError"

\* name in self._drivers
Registered(ds, name) == \E i \in 1..Len(ds) : ds[i].name = name

\* no DriverRegistry call is under way
RegistryIdle == dispatch.pending = <<>> /\ call = NoCall

\* a register that binds the name whether or not it is bound
register_overwrites(name, driver) ==
    /\ RegistryIdle
    /\ _drivers' =
          IF Registered(_drivers, name)
          THEN [i \in 1..Len(_drivers) |->
                   IF _drivers[i].name = name
                   THEN [name |-> name, driver |-> driver]
                   ELSE _drivers[i]]
          ELSE Append(_drivers, [name |-> name, driver |-> driver])
    /\ dispatch' = Dispatch("register", name, OtherEvent, NoError, <<>>, <<>>)
    /\ UNCHANGED << registry, reverse, tenants, last_render, file, call, prev,
                    first_alloc, seen_vrf, watched, renderer >>
    /\ UNCHANGED << otherVars, maintain_empty_vrf, released, tenants_file, _state,
                    emitted, pc, stop, twin >>

\* DriverRegistry.register
register(name, driver) ==
    /\ RegistryIdle
    /\ IF Registered(_drivers, name)
       THEN /\ dispatch' = Dispatch("register", name, OtherEvent, ValueError,
                                    <<>>, <<>>)
            /\ UNCHANGED _drivers
       ELSE /\ _drivers' = Append(_drivers, [name |-> name, driver |-> driver])
            /\ dispatch' = Dispatch("register", name, OtherEvent, NoError,
                                    <<>>, <<>>)
    /\ UNCHANGED << registry, reverse, tenants, last_render, file, call, prev,
                    first_alloc, seen_vrf, watched, renderer >>
    /\ UNCHANGED << otherVars, maintain_empty_vrf, released, tenants_file, _state,
                    emitted, pc, stop, twin >>

\* DriverRegistry.unregister
unregister(name) ==
    /\ RegistryIdle
    /\ _drivers' = SelectSeq(_drivers, LAMBDA d : d.name # name)
    /\ released' = IF Registered(_drivers, name) THEN released \cup {name}
                   ELSE released
    /\ dispatch' = Dispatch("unregister", name, OtherEvent, NoError, <<>>, <<>>)
    /\ UNCHANGED << registry, reverse, tenants, last_render, file, call, prev,
                    first_alloc, seen_vrf, watched, renderer >>
    /\ UNCHANGED << otherVars, maintain_empty_vrf, tenants_file, _state, emitted, pc,
                    stop, twin >>

\* DriverRegistry.handle, up to its loop over self._drivers.values()
handle(event) ==
    /\ RegistryIdle
    /\ dispatch' =
          IF event.kind \in {"NamespaceUpsert", "NamespaceDelete"}
          THEN Dispatch("handle", "", event, NoError, _drivers, <<>>)
          ELSE Dispatch("handle", "", event, TypeError, <<>>, <<>>)
    /\ UNCHANGED << registry, reverse, tenants, last_render, file, call, prev,
                    first_alloc, seen_vrf, watched, renderer >>
    /\ UNCHANGED << otherVars, maintain_empty_vrf, _drivers, released, tenants_file,
                    _state, emitted, pc, stop, twin >>

\* the loop of _on_namespace_upsert and _on_namespace_delete, at a driver
\* that takes the event and returns
call_recorder ==
    /\ dispatch.pending # <<>>
    /\ Head(dispatch.pending).driver = "recorder"
    /\ dispatch' = [dispatch EXCEPT
                       !.pending = Tail(@),
                       !.reached = Append(@, Head(dispatch.pending))]
    /\ UNCHANGED << registry, reverse, tenants, last_render, file, call, prev,
                    first_alloc, seen_vrf, watched, renderer >>
    /\ UNCHANGED << otherVars, maintain_empty_vrf, _drivers, released, tenants_file,
                    _state, emitted, pc, stop, twin >>

\* the same loop at the VPNv4DriverAdapter: the adapter is called
call_adapter ==
    /\ dispatch.pending # <<>>
    /\ Head(dispatch.pending).driver = "adapter"
    /\ IF dispatch.event.kind = "NamespaceUpsert"
       THEN on_namespace_upsert(dispatch.event.namespace,
                                dispatch.event.prefixes)
       ELSE on_namespace_delete(dispatch.event.namespace)

\* the adapter's call ends: the loop goes on when it returned, and the error
\* leaves handle, past the drivers not yet called, when it raised
adapter_returns ==
    /\ dispatch.pending # <<>>
    /\ Head(dispatch.pending).driver = "adapter"
    /\ call # NoCall
    /\ call' = NoCall
    /\ dispatch' =
          IF call.error = NoError
          THEN [dispatch EXCEPT
                   !.pending = Tail(@),
                   !.reached = Append(@, Head(dispatch.pending))]
          ELSE [dispatch EXCEPT
                   !.error = call.error,
                   !.pending = <<>>,
                   !.reached = Append(@, Head(dispatch.pending))]
    /\ UNCHANGED << registry, reverse, tenants, last_render, file, prev,
                    first_alloc, seen_vrf, watched, renderer >>
    /\ UNCHANGED << otherVars, maintain_empty_vrf, _drivers, released, tenants_file,
                    _state, emitted, pc, stop, twin >>

\* a Driver, an adapter over it, and an empty DriverRegistry
InitRegistry == InitAdapter

NextRegistry ==
    \/ \E name \in DriverNames, d \in DriverObjects : register(name, d)
    \/ \E name \in DriverNames : unregister(name)
    \/ \E event \in Events : handle(event)
    \/ call_recorder
    \/ call_adapter
    \/ adapter_returns

SpecRegistry == InitRegistry /\ [][NextRegistry]_vars

(***************************************************************************)
(* FileNamespaceWatcher                                                    *)
(***************************************************************************)
\* A prefix string as its two parts: the text before the first "/", and the
\* text after it, None when the string holds no "/".
PrefixText(address, mask) == [ address |-> address, mask |-> mask ]

\* "/" in value
HasMask(value) == value.mask # None

\* ipaddress.ip_address(address).version, for the addresses of FilePrefixes
IPVersion(address) == IF address = "fd00::1" THEN 6 ELSE 4

\* watchers/utils.py normalize_prefix, for a non-empty string
normalize_prefix(value) ==
    IF HasMask(value) THEN value
    ELSE IF IPVersion(value.address) = 4
    THEN PrefixText(value.address, Some("32"))
    ELSE PrefixText(value.address, Some("128"))

\* the prefix strings a tenants file is written with
Masked == PrefixText("10.244.0.0", Some("24"))
Bare4 == PrefixText("10.0.0.1", None)
Bare6 == PrefixText("fd00::1", None)
FilePrefixes == {Masked, Bare4, Bare6}
FilePrefixLists ==
    { <<>>, <<Masked>>, <<Bare4>>, <<Masked, Bare4>>, <<Bare4, Masked>> }

\* one element of the "tenants" list; namespace None when the key is absent
TenantEntry(namespace, prefixes) ==
    [ namespace |-> namespace, prefixes |-> prefixes ]

\* What the file holds: text that is no JSON, a JSON object without the
\* "tenants" key, or a "tenants" list.
NotJson == [ json |-> FALSE, tenants |-> None ]
NoTenantsKey == [ json |-> TRUE, tenants |-> None ]
TenantsDocument(entries) == [ json |-> TRUE, tenants |-> Some(entries) ]

\* the lists of entries written: any entry for each namespace, in either
\* order; an entry without a namespace; two entries for one namespace; a
\* prefix written twice
EntryLists ==
    LET of(n) == {<<>>} \cup {<<TenantEntry(Some(n), p)>> : p \in FilePrefixLists}
    IN  {a \o b : a \in of("tenant-a"), b \in of("tenant-b")}
        \cup {b \o a : a \in of("tenant-a"), b \in of("tenant-b")}
        \cup {<<TenantEntry(None, <<Masked>>), TenantEntry(Some("tenant-a"), <<Masked>>)>>,
              <<TenantEntry(Some("tenant-a"), <<Masked>>),
                TenantEntry(Some("tenant-b"), <<>>),
                TenantEntry(Some("tenant-a"), <<Bare4>>)>>,
              <<TenantEntry(Some("tenant-b"), <<Bare6, Masked, Bare6>>)>>}

Documents == {NotJson, NoTenantsKey} \cup {TenantsDocument(e) : e \in EntryLists}

\* _normalise
_normalise(prefixes) == dict_fromkeys(prefixes)

\* namespace in state
InState(st, namespace) == \E i \in 1..Len(st) : st[i].namespace = namespace

\* state[namespace] = prefixes
state_set(st, namespace, prefixes) ==
    IF InState(st, namespace)
    THEN [i \in 1..Len(st) |->
             IF st[i].namespace = namespace
             THEN [namespace |-> namespace, prefixes |-> prefixes]
             ELSE st[i]]
    ELSE Append(st, [namespace |-> namespace, prefixes |-> prefixes])

\* the loop of _extract_state over the first k entries
RECURSIVE ExtractLoop(_, _)
ExtractLoop(entries, k) ==
    IF k = 0 THEN <<>>
    ELSE LET state == ExtractLoop(entries, k - 1)
             tenant == entries[k]
         IN  IF tenant.namespace = None THEN state
             ELSE state_set(state, Get(tenant.namespace),
                            _normalise(tenant.prefixes))

\* _extract_state, for a payload that has the "tenants" key
_extract_state(payload) ==
    ExtractLoop(Get(payload.tenants), Len(Get(payload.tenants)))

\* self._state.get(namespace)
state_get(st, namespace) ==
    IF InState(st, namespace)
    THEN Some((st[CHOOSE i \in 1..Len(st) : st[i].namespace = namespace]).prefixes)
    ELSE None

\* the namespaces of a state
Keys(st) == {st[i].namespace : i \in 1..Len(st)}

\* the sequences that hold every element of S once
Orderings(S) ==
    {q \in SeqsUpTo(S, Cardinality(S)) :
        Len(q) = Cardinality(S) /\ Range(q) = S}

\* what registry.handle raised
HandleRaised == "registry.handle raised"

\* the first loop of poll: the events for desired.items()
Upserts(desired) ==
    LET changed == SelectSeq(desired, LAMBDA d :
                      state_get(_state, d.namespace) # Some(d.prefixes))
    IN  [i \in 1..Len(changed) |->
            NamespaceUpsert(changed[i].namespace, changed[i].prefixes)]

\* a poll that takes a file it cannot use for a file without tenants
poll_forgets ==
    /\ call = NoCall
    /\ LET desired == IF tenants_file = None \/ ~Get(tenants_file).json
                         \/ Get(tenants_file).tenants = None
                      THEN <<>>
                      ELSE _extract_state(Get(tenants_file))
           removed == Keys(_state) \ Keys(desired)
       IN  \E order \in Orderings(removed) :
              LET events == Upserts(desired) \o
                            [i \in 1..Len(order) |-> NamespaceDelete(order[i])]
              IN  \E raising \in 0..Len(events) :
                     IF raising = 0
                     THEN /\ emitted' = events
                          /\ _state' = desired
                          /\ call' = Call("poll", NoNamespace, NoError,
                                          FALSE, "no", Some(desired))
                     ELSE /\ emitted' = SubSeq(events, 1, raising)
                          /\ UNCHANGED _state
                          /\ call' = Call("poll", NoNamespace,
                                          HandleRaised, FALSE, "no",
                                          Some(desired))
    /\ UNCHANGED << registry, reverse, tenants, last_render, file, prev,
                    first_alloc, seen_vrf, watched, renderer >>
    /\ UNCHANGED << otherVars, maintain_empty_vrf, _drivers, dispatch, released,
                    tenants_file, pc, stop, twin >>

\* a poll that assigns self._state before it hands the events on
poll_commits_first ==
    /\ call = NoCall
    /\ IF tenants_file = None \/ ~Get(tenants_file).json
          \/ Get(tenants_file).tenants = None
       THEN /\ call' = Call("poll", NoNamespace, NoError, FALSE, "no", None)
            /\ emitted' = <<>>
            /\ UNCHANGED _state
       ELSE LET desired == _extract_state(Get(tenants_file))
                removed == Keys(_state) \ Keys(desired)
            IN  \E order \in Orderings(removed) :
                   LET events == Upserts(desired) \o
                                 [i \in 1..Len(order) |-> NamespaceDelete(order[i])]
                   IN  \E raising \in 0..Len(events) :
                          /\ _state' = desired
                          /\ emitted' = IF raising = 0 THEN events
                                        ELSE SubSeq(events, 1, raising)
                          /\ call' = Call("poll", NoNamespace,
                                          IF raising = 0 THEN NoError
                                          ELSE HandleRaised,
                                          FALSE, "no", Some(desired))
    /\ UNCHANGED << registry, reverse, tenants, last_render, file, prev,
                    first_alloc, seen_vrf, watched, renderer >>
    /\ UNCHANGED << otherVars, maintain_empty_vrf, _drivers, dispatch, released,
                    tenants_file, pc, stop, twin >>

\* FileNamespaceWatcher.poll.  The second loop runs over a set, in an order
\* the code does not fix.  registry.handle returns or raises what a driver
\* raised; an error leaves poll at once, before self._state is assigned.
\* The call records the state it read, None when it read none.
poll ==
    /\ call = NoCall
    /\ IF tenants_file = None \/ ~Get(tenants_file).json
          \/ Get(tenants_file).tenants = None
       THEN /\ call' = Call("poll", NoNamespace, NoError, FALSE, "no", None)
            /\ emitted' = <<>>
            /\ UNCHANGED _state
       ELSE LET desired == _extract_state(Get(tenants_file))
                removed == Keys(_state) \ Keys(desired)
            IN  \E order \in Orderings(removed) :
                   LET events == Upserts(desired) \o
                                 [i \in 1..Len(order) |-> NamespaceDelete(order[i])]
                   IN  \E raising \in 0..Len(events) :
                          IF raising = 0
                          THEN /\ emitted' = events
                               /\ _state' = desired
                               /\ call' = Call("poll", NoNamespace, NoError,
                                               FALSE, "no", Some(desired))
                          ELSE /\ emitted' = SubSeq(events, 1, raising)
                               /\ UNCHANGED _state
                               /\ call' = Call("poll", NoNamespace,
                                               HandleRaised, FALSE, "no",
                                               Some(desired))
    /\ UNCHANGED << registry, reverse, tenants, last_render, file, prev,
                    first_alloc, seen_vrf, watched, renderer >>
    /\ UNCHANGED << otherVars, maintain_empty_vrf, _drivers, dispatch, released,
                    tenants_file, pc, stop, twin >>

\* the file is written, or removed, between two polls
write_file(content) ==
    /\ call = NoCall
    /\ tenants_file' = content
    /\ tenants_file' # tenants_file
    /\ UNCHANGED << registry, reverse, tenants, last_render, file, call, prev,
                    first_alloc, seen_vrf, watched, renderer >>
    /\ UNCHANGED << otherVars, maintain_empty_vrf, _drivers, dispatch, released, _state,
                    emitted, pc, stop, twin >>

\* the caller of poll goes on
poll_returned ==
    /\ call # NoCall
    /\ call' = NoCall
    /\ emitted' = <<>>
    /\ UNCHANGED << registry, reverse, tenants, last_render, file, prev,
                    first_alloc, seen_vrf, watched, renderer >>
    /\ UNCHANGED << otherVars, maintain_empty_vrf, _drivers, dispatch, released,
                    tenants_file, _state, pc, stop, twin >>

\* FileNamespaceWatcher.__init__, the file not yet there
InitWatcher ==
    /\ VPNv4RouteDriver_init
    /\ Standalone

NextWatcher ==
    \/ poll
    \/ \E content \in {None} \cup {Some(d) : d \in Documents} : write_file(content)
    \/ poll_returned

SpecWatcher == InitWatcher /\ [][NextWatcher]_vars

(***************************************************************************)
(* The agent: main and its watcher threads                                 *)
(***************************************************************************)
\* the watchers of config.watchers, all of type "file"
NumWatchers == 2
\* the most calls of registry.handle one poll makes
MaxHandles == 2

Watchers == 1..NumWatchers
MainThread == 0
Threads == {MainThread} \cup Watchers

\* Where a thread is: the place in its code, the watcher main is dealing with
\* (its own number for a watcher thread), the calls of registry.handle the
\* poll it is in has still to make, and, as history, the place it was at
\* when stop_event was set.
At(at, watcher, left, caught) ==
    [ at |-> at, watcher |-> watcher, left |-> left, caught |-> caught ]

\* a step of a thread, as far as its place in the code goes
OnlyThreads ==
    /\ UNCHANGED << registry, reverse, tenants, last_render, file, call, prev,
                    first_alloc, seen_vrf, watched, renderer >>
    /\ UNCHANGED << otherVars, maintain_empty_vrf, _drivers, dispatch, released,
                    tenants_file, _state, emitted, twin >>

\* the thread enters poll; what the file holds decides the calls it makes
begin_poll(t) ==
    \E left \in 0..MaxHandles : pc' = [pc EXCEPT ![t].at = "poll", ![t].left = left]

\* FileNamespaceWatcher.poll calls registry.handle: no lock is taken
enter_handle(t) ==
    /\ pc[t].at = "poll"
    /\ pc[t].left > 0
    /\ pc' = [pc EXCEPT ![t].at = "handle", ![t].left = @ - 1]
    /\ UNCHANGED stop
    /\ OnlyThreads

\* registry.handle returns, or raises and thereby ends the poll
leave_handle(t) ==
    /\ pc[t].at = "handle"
    /\ \E left \in {pc[t].left, 0} :
          pc' = [pc EXCEPT ![t].at = "poll", ![t].left = left]
    /\ UNCHANGED stop
    /\ OnlyThreads

\* main, line 78: the initial poll of the next watcher
main_initial_poll ==
    /\ pc[MainThread].at = "create"
    /\ begin_poll(MainThread)
    /\ UNCHANGED stop
    /\ OnlyThreads

\* main, lines 79-82: the initial poll has ended, the watcher is started and
\* main goes on to the next one, or installs the signal handlers
main_start ==
    /\ pc[MainThread].at = "poll"
    /\ pc[MainThread].left = 0
    /\ LET w == pc[MainThread].watcher
       IN  pc' = [pc EXCEPT
                     ![w].at = "check",
                     ![MainThread] =
                         IF w < NumWatchers
                         THEN At("create", w + 1, 0, "")
                         ELSE At("wait", 0, 0, "")]
    /\ UNCHANGED stop
    /\ OnlyThreads

\* a signal reaches the process, handlers installed: _shutdown, or the
\* KeyboardInterrupt fallback, does stop_event.set()
shutdown ==
    /\ pc[MainThread].at = "wait"
    /\ ~stop
    /\ stop' = TRUE
    /\ pc' = [t \in Threads |-> [pc[t] EXCEPT !.caught = pc[t].at]]
    /\ OnlyThreads

\* main, lines 94-96: the loop ends once stop_event is set
main_stopped ==
    /\ pc[MainThread].at = "wait"
    /\ stop
    /\ pc' = [pc EXCEPT ![MainThread].at = "join", ![MainThread].watcher = 1]
    /\ UNCHANGED stop
    /\ OnlyThreads

\* a main that does not wait for the thread
join_without_waiting ==
    /\ pc[MainThread].at = "join"
    /\ LET w == pc[MainThread].watcher
       IN  pc' = [pc EXCEPT
                     ![MainThread] =
                         IF w < NumWatchers
                         THEN [pc[MainThread] EXCEPT !.watcher = w + 1]
                         ELSE [pc[MainThread] EXCEPT !.at = "returned"]]
    /\ UNCHANGED stop
    /\ OnlyThreads

\* main, lines 100-104: watcher.join() returns when the thread has ended
join ==
    /\ pc[MainThread].at = "join"
    /\ LET w == pc[MainThread].watcher
       IN  /\ pc[w].at = "done"
           /\ pc' = [pc EXCEPT
                        ![MainThread] =
                            IF w < NumWatchers
                            THEN [pc[MainThread] EXCEPT !.watcher = w + 1]
                            ELSE [pc[MainThread] EXCEPT !.at = "returned"]]
    /\ UNCHANGED stop
    /\ OnlyThreads

\* FileNamespaceWatcher.run, line 55: the loop test
run_check(w) ==
    /\ pc[w].at = "check"
    /\ IF stop THEN pc' = [pc EXCEPT ![w].at = "done"]
       ELSE begin_poll(w)
    /\ UNCHANGED stop
    /\ OnlyThreads

\* run, lines 56-59: poll has returned or raised
run_polled(w) ==
    /\ pc[w].at = "poll"
    /\ pc[w].left = 0
    /\ pc' = [pc EXCEPT ![w].at = "wait"]
    /\ UNCHANGED stop
    /\ OnlyThreads

\* run, line 60: stop_event.wait(interval) returns, stop set or not
run_waited(w) ==
    /\ pc[w].at = "wait"
    /\ pc' = [pc EXCEPT ![w].at = "check"]
    /\ UNCHANGED stop
    /\ OnlyThreads

\* what a thread of the agent does next
thread_step(t) ==
    \/ enter_handle(t)
    \/ leave_handle(t)
    \/ t = MainThread /\ (main_initial_poll \/ main_start \/ main_stopped \/ join)
    \/ t # MainThread /\ (run_check(t) \/ run_polled(t) \/ run_waited(t))

\* main at line 66, the adapter registered, no thread started
InitAgent ==
    /\ VPNv4RouteDriver_init
    /\ maintain_empty_vrf = TRUE
    /\ _drivers = << [name |-> "vpnv4", driver |-> "adapter"] >>
    /\ dispatch = NoDispatch
    /\ released = {}
    /\ tenants_file = None
    /\ _state = <<>>
    /\ emitted = <<>>
    /\ pc = [t \in Threads |->
                IF t = MainThread THEN At("create", 1, 0, "")
                ELSE At("unstarted", t, 0, "")]
    /\ stop = FALSE
    /\ twin = NoTwin
    /\ Apart

NextAgent ==
    \/ main_initial_poll
    \/ main_start
    \/ \E t \in Threads : enter_handle(t)
    \/ \E t \in Threads : leave_handle(t)
    \/ \E w \in Watchers : run_check(w)
    \/ \E w \in Watchers : run_polled(w)
    \/ \E w \in Watchers : run_waited(w)
    \/ shutdown
    \/ main_stopped
    \/ join

SpecAgent == InitAgent /\ [][NextAgent]_vars

\* the agent with every thread that can run scheduled again and again
SpecAgentFair ==
    /\ SpecAgent
    /\ \A t \in Threads : WF_vars(thread_step(t))

(***************************************************************************)
(* Two DeterministicAllocator instances                                    *)
(***************************************************************************)
\* the most allocate calls made on an instance
MaxCalls == 4

\* what a call of allocate(namespace) gave
Answer(namespace, a) ==
    [ namespace |-> namespace, error |-> a.error, result |-> a.result ]

\* an allocate whose hash is salted by the process it runs in, as Python's
\* builtin hash() of a str is
AllocateSalted(namespace, reg, rev) ==
    IF namespace \in DOMAIN reg
    THEN [error |-> NoError, result |-> Some(reg[namespace]),
          registry |-> reg, reverse |-> rev]
    ELSE LET start     == (_hash_namespace(namespace) + 1) % MaxId
             candidate == Probe(start, start, namespace, rev)
         IN  IF candidate = MaxId
             THEN [error |-> AllocatorExhausted, result |-> None,
                   registry |-> reg, reverse |-> rev]
             ELSE [error |-> NoError, result |-> Some(Allocation(candidate)),
                   registry |-> dict_set(reg, namespace, Allocation(candidate)),
                   reverse  |-> dict_set(rev, candidate, namespace)]

\* allocate on the first instance
first_allocate(namespace) ==
    /\ Len(twin.asked) < MaxCalls
    /\ LET a == Allocate(namespace, registry, reverse)
       IN  /\ registry' = a.registry
           /\ reverse' = a.reverse
           /\ twin' = [twin EXCEPT !.asked = Append(@, Answer(namespace, a))]
    /\ UNCHANGED << tenants, last_render, file, call, prev, first_alloc,
                    seen_vrf, watched, renderer >>
    /\ UNCHANGED << otherVars, maintain_empty_vrf, _drivers, dispatch, released,
                    tenants_file, _state, emitted, pc, stop >>

\* the second instance in a process with another hash salt
second_allocate_salted ==
    /\ Len(twin.answered) < Len(twin.asked)
    /\ LET namespace == twin.asked[Len(twin.answered) + 1].namespace
           a == AllocateSalted(namespace, twin.registry, twin.reverse)
       IN  twin' = [twin EXCEPT !.registry = a.registry,
                                !.reverse = a.reverse,
                                !.answered = Append(@, Answer(namespace, a))]
    /\ UNCHANGED << registry, reverse, tenants, last_render, file, call, prev,
                    first_alloc, seen_vrf, watched, renderer >>
    /\ UNCHANGED << otherVars, maintain_empty_vrf, _drivers, dispatch, released,
                    tenants_file, _state, emitted, pc, stop >>

\* allocate on the second instance, for the next namespace the first one was
\* asked for
second_allocate ==
    /\ Len(twin.answered) < Len(twin.asked)
    /\ LET namespace == twin.asked[Len(twin.answered) + 1].namespace
           a == Allocate(namespace, twin.registry, twin.reverse)
       IN  twin' = [twin EXCEPT !.registry = a.registry,
                                !.reverse = a.reverse,
                                !.answered = Append(@, Answer(namespace, a))]
    /\ UNCHANGED << registry, reverse, tenants, last_render, file, call, prev,
                    first_alloc, seen_vrf, watched, renderer >>
    /\ UNCHANGED << otherVars, maintain_empty_vrf, _drivers, dispatch, released,
                    tenants_file, _state, emitted, pc, stop >>

\* two instances built with the same rd_base, rt_base and max_id
InitTwin == Init

NextTwin ==
    \/ \E n \in AllocNamespaces : first_allocate(n)
    \/ second_allocate

SpecTwin == InitTwin /\ [][NextTwin]_vars

(***************************************************************************)
(* The Driver used only through the operations that render: no caller      *)
(* reaches ensure_namespace or the allocator directly, and every call      *)
(* returns (a call that raises is not part of these behaviours)            *)
(***************************************************************************)
NextCompleted ==
    \/ \E n \in Namespaces : withdraw_namespace(n) /\ call'.error = NoError
    \/ \E n \in Namespaces, p \in PrefixInputs :
          advertise_prefixes(n, p) /\ call'.error = NoError
    \/ \E n \in Namespaces, p \in PrefixInputs :
          withdraw_prefixes(n, p) /\ call'.error = NoError
    \/ \E n \in Namespaces, p \in PrefixInputs :
          synchronize_prefixes(n, p) /\ call'.error = NoError
    \/ render /\ call'.error = NoError
    \/ sync /\ call'.error = NoError
    \/ Returned

SpecCompleted == Init /\ [][NextCompleted]_vars

(***************************************************************************)
(* The Driver over an output directory that at times cannot be written     *)
(***************************************************************************)
\* the file system starts or stops refusing mkdir and write_text
disk_changes ==
    /\ call = NoCall
    /\ writable' = ~writable
    /\ UNCHANGED << registry, reverse, tenants, last_render, file, call, prev,
                    first_alloc, seen_vrf, watched, renderer >>
    /\ UNCHANGED << _current, _namespace_ips, local, maintain_empty_vrf,
                    _drivers, dispatch, released, tenants_file, _state,
                    emitted, pc, stop, twin >>

\* the prefix lists the callers pass: none, or the one prefix
DiskPrefixInputs == { <<>>, <<"10.244.0.0/24">> }

NextDisk ==
    \/ \E n \in Namespaces : withdraw_namespace(n)
    \/ \E n \in Namespaces, p \in DiskPrefixInputs : advertise_prefixes(n, p)
    \/ \E n \in Namespaces, p \in DiskPrefixInputs : withdraw_prefixes(n, p)
    \/ \E n \in Namespaces, p \in DiskPrefixInputs :
          synchronize_prefixes(n, p)
    \/ render
    \/ sync
    \/ Returned
    \/ disk_changes

SpecDisk == Init /\ [][NextDisk]_vars

(***************************************************************************)
(* FileNamespaceWatcher.run: the watcher's thread polling again and again, *)
(* with the poll before the present one remembered                         *)
(***************************************************************************)
\* the only watcher thread
Poller == 1

\* what `prev` keeps of a poll: the error it ended with and, when it raised,
\* what the file held and the events it had handed on
Polled(error, content, events) ==
    [ op |-> "poll", namespace |-> NoNamespace, error |-> error,
      file |-> content, emitted |-> events ]

\* run, lines 56-60: poll has returned, or raised into the except clause that
\* logs the error; the thread waits and comes back to the loop test
run ==
    /\ call # NoCall
    /\ pc[Poller].at = "check"
    /\ call' = NoCall
    /\ emitted' = <<>>
    /\ prev' = IF call.error = NoError THEN Polled(NoError, None, <<>>)
               ELSE Polled(call.error, tenants_file, emitted)
    /\ pc' = [pc EXCEPT ![Poller].at = "check"]
    /\ UNCHANGED << registry, reverse, tenants, last_render, file,
                    first_alloc, seen_vrf, watched, renderer >>
    /\ UNCHANGED << otherVars, maintain_empty_vrf, _drivers, dispatch, released,
                    tenants_file, _state, stop, twin >>

\* the thread started, at its first loop test, no poll made yet
InitRun ==
    /\ registry = EmptyDict
    /\ reverse = EmptyDict
    /\ tenants = <<>>
    /\ last_render = None
    /\ file = None
    /\ call = NoCall
    /\ prev = Polled(NoError, None, <<>>)
    /\ first_alloc = EmptyDict
    /\ seen_vrf = [n \in Namespaces |-> {}]
    /\ watched = None
    /\ renderer = [ config |-> config, include_globals |-> include_globals ]
    /\ maintain_empty_vrf = TRUE
    /\ _drivers = <<>>
    /\ dispatch = NoDispatch
    /\ released = {}
    /\ tenants_file = None
    /\ _state = <<>>
    /\ emitted = <<>>
    /\ pc = [t \in {Poller} |-> At("check", Poller, 0, "")]
    /\ stop = FALSE
    /\ twin = NoTwin
    /\ Apart

\* what is written to the file while the thread runs: text that is no JSON,
\* or an entry for each of the namespaces or for one, in either order
RunDocuments ==
    LET of(n) == {<<>>} \cup {<<TenantEntry(Some(n), p)>> :
                                 p \in {<<>>, <<Masked>>}}
    IN  {NotJson}
        \cup {TenantsDocument(a \o b) : a \in of("tenant-a"), b \in of("tenant-b")}
        \cup {TenantsDocument(b \o a) : a \in of("tenant-a"), b \in of("tenant-b")}

NextRun ==
    \/ pc[Poller].at = "check" /\ poll
    \/ \E content \in {None} \cup {Some(d) : d \in RunDocuments} :
          write_file(content)
    \/ run

SpecRun == InitRun /\ [][NextRun]_vars

(***************************************************************************)
(* NamespaceAggregator (the OVN watcher's state)                           *)
(***************************************************************************)
Bare4Masked == PrefixText("10.0.0.1", Some("32"))

\* the normalized prefix strings in the order of Python's string comparison:
\* "10.0.0.1/32" < "10.244.0.0/24" < "fd00::1/128"
StringOrder == << Bare4Masked, Masked, normalize_prefix(Bare6) >>

\* sorted(prefixes), for a set of normalized prefix strings
sorted(prefixes) == SelectSeq(StringOrder, LAMBDA p : p \in prefixes)

\* the prefix collections _collect_prefixes gathers for a namespace
PrefixSets ==
    { {}, {Masked}, {Bare4}, {Bare4, Bare4Masked}, {Masked, Bare4} }

\* the mappings update is called with: an entry for each of the namespaces or
\* for one, in either order
Mappings ==
    LET of(n) == {<<>>} \cup {<<[namespace |-> n, prefixes |-> p]>> :
                                 p \in PrefixSets}
    IN  {a \o b : a \in of("tenant-a"), b \in of("tenant-b")}
        \cup {b \o a : a \in of("tenant-a"), b \in of("tenant-b")}

\* a desired state that keeps the namespaces whose collection is empty
DesiredWithEmpty(mapping) ==
    [i \in 1..Len(mapping) |->
        [ namespace |-> mapping[i].namespace,
          prefixes |-> {normalize_prefix(p) : p \in mapping[i].prefixes} ]]

\* update, lines 29-30: the normalized set of every namespace whose
\* collection is not empty
Desired(mapping) ==
    LET kept == SelectSeq(mapping, LAMBDA m : m.prefixes # {})
    IN  [i \in 1..Len(kept) |->
            [ namespace |-> kept[i].namespace,
              prefixes |-> {normalize_prefix(p) : p \in kept[i].prefixes} ]]

\* self._current.get(namespace)
current_get(cur, namespace) ==
    IF \E i \in 1..Len(cur) : cur[i].namespace = namespace
    THEN Some((cur[CHOOSE i \in 1..Len(cur) : cur[i].namespace = namespace]).prefixes)
    ELSE None

\* self._current[namespace] = prefixes
current_set(cur, namespace, prefixes) ==
    IF current_get(cur, namespace) # None
    THEN [i \in 1..Len(cur) |->
             IF cur[i].namespace = namespace
             THEN [cur[i] EXCEPT !.prefixes = prefixes] ELSE cur[i]]
    ELSE Append(cur, [namespace |-> namespace, prefixes |-> prefixes])

\* del self._current[namespace]
current_del(cur, namespace) == SelectSeq(cur, LAMBDA c : c.namespace # namespace)

\* The changes an update makes, in the order it makes them: first loop, an
\* assignment for each desired namespace whose set differs from the current
\* one; second loop, a deletion for each current namespace that is not desired.
Changes(cur, desired) ==
    LET differing == SelectSeq(desired, LAMBDA d :
                        current_get(cur, d.namespace) # Some(d.prefixes))
        gone == SelectSeq(cur, LAMBDA c :
                    \A i \in 1..Len(desired) : desired[i].namespace # c.namespace)
    IN  [i \in 1..Len(differing) |->
            [ kind |-> "NamespaceUpsert", namespace |-> differing[i].namespace,
              prefixes |-> differing[i].prefixes ]]
        \o [i \in 1..Len(gone) |->
            [ kind |-> "NamespaceDelete", namespace |-> gone[i].namespace,
              prefixes |-> {} ]]

\* the event handed to registry.handle with a change
EventOf(change) ==
    IF change.kind = "NamespaceUpsert"
    THEN NamespaceUpsert(change.namespace, sorted(change.prefixes))
    ELSE NamespaceDelete(change.namespace)

\* self._current after the first k changes were made
RECURSIVE CurrentAfter(_, _, _)
CurrentAfter(cur, changes, k) ==
    IF k = 0 THEN cur
    ELSE LET before == CurrentAfter(cur, changes, k - 1)
         IN  IF changes[k].kind = "NamespaceUpsert"
             THEN current_set(before, changes[k].namespace, changes[k].prefixes)
             ELSE current_del(before, changes[k].namespace)

\* what `prev` keeps of an update: its mapping, the error it ended with, and
\* the events it had not delivered: the one whose dispatch raised and those
\* of the changes it had not reached
Updated(mapping, error, owed) ==
    [ op |-> "update", namespace |-> NoNamespace, error |-> error,
      mapping |-> mapping, owed |-> owed ]

\* NamespaceAggregator.update.  Each change is made to self._current and then
\* handed to registry.handle, which returns or raises what a driver raised;
\* an error leaves update at once.  The call records its mapping and the
\* events it did not deliver.
update(mapping) ==
    /\ call = NoCall
    /\ LET changes == Changes(_current, Desired(mapping))
           events == [i \in 1..Len(changes) |-> EventOf(changes[i])]
       IN  \E raising \in 0..Len(events) :
              IF raising = 0
              THEN /\ _current' = CurrentAfter(_current, changes, Len(changes))
                   /\ emitted' = events
                   /\ call' = Call("update", NoNamespace, NoError, FALSE, "no",
                                   Some(Updated(mapping, NoError, <<>>)))
              ELSE /\ _current' = CurrentAfter(_current, changes, raising)
                   /\ emitted' = SubSeq(events, 1, raising)
                   /\ call' = Call("update", NoNamespace, HandleRaised, FALSE,
                                   "no",
                                   Some(Updated(mapping, HandleRaised,
                                        SubSeq(events, raising, Len(events)))))
    /\ UNCHANGED << registry, reverse, tenants, last_render, file, prev,
                    first_alloc, seen_vrf, watched, renderer >>
    /\ UNCHANGED << writable, _namespace_ips, local, maintain_empty_vrf,
                    _drivers, dispatch, released, tenants_file, _state, pc,
                    stop, twin >>

\* OVNNamespaceWatcher.run, lines 79-85: update has returned, or raised into
\* the except clause; the next refresh comes after the wait
update_returned ==
    /\ call # NoCall
    /\ call' = NoCall
    /\ emitted' = <<>>
    /\ prev' = Get(call.result)
    /\ UNCHANGED << registry, reverse, tenants, last_render, file,
                    first_alloc, seen_vrf, watched, renderer >>
    /\ UNCHANGED << otherVars, maintain_empty_vrf, _drivers, dispatch, released,
                    tenants_file, _state, pc, stop, twin >>

\* NamespaceAggregator.__init__
InitAggregator ==
    /\ registry = EmptyDict
    /\ reverse = EmptyDict
    /\ tenants = <<>>
    /\ last_render = None
    /\ file = None
    /\ call = NoCall
    /\ prev = Updated(<<>>, NoError, <<>>)
    /\ first_alloc = EmptyDict
    /\ seen_vrf = [n \in Namespaces |-> {}]
    /\ watched = None
    /\ renderer = [ config |-> config, include_globals |-> include_globals ]
    /\ Standalone

NextAggregator ==
    \/ \E mapping \in Mappings : update(mapping)
    \/ update_returned

SpecAggregator == InitAggregator /\ [][NextAggregator]_vars

(***************************************************************************)
(* One file watcher feeding one Driver through the VPNv4 adapter: poll     *)
(* hands each event to registry.handle, which calls the adapter, which     *)
(* calls the Driver; an error of the Driver leaves poll                    *)
(***************************************************************************)
\* what the tenants file is written with: text that is no JSON, or an entry
\* for each of the namespaces or for one, in either order, with no prefix,
\* one prefix, or one prefix written twice
FeedDocuments ==
    LET of(n) == {<<>>} \cup {<<TenantEntry(Some(n), p)>> :
                                 p \in { <<>>, <<"10.244.0.0/24">>,
                                         <<"10.244.0.0/24", "10.244.0.0/24">> }}
    IN  {NotJson}
        \cup {TenantsDocument(a \o b) : a \in of("tenant-a"), b \in of("tenant-b")}
        \cup {TenantsDocument(b \o a) : a \in of("tenant-a"), b \in of("tenant-b")}

\* the poll under way
Polling == dispatch.op = "poll"

\* poll, lines 62-77: reads the file and works out the events; a file that
\* is missing or cannot be used ends the poll
feed_poll ==
    /\ ~Polling
    /\ call = NoCall
    /\ tenants_file # None
    /\ Get(tenants_file).json
    /\ Get(tenants_file).tenants # None
    /\ LET desired == _extract_state(Get(tenants_file))
           removed == Keys(_state) \ Keys(desired)
       IN  \E order \in Orderings(removed) :
              dispatch' = Dispatch("poll", "", OtherEvent, NoError,
                              Upserts(desired) \o
                              [i \in 1..Len(order) |-> NamespaceDelete(order[i])],
                              <<>>)
    /\ UNCHANGED << registry, reverse, tenants, last_render, file, call, prev,
                    first_alloc, seen_vrf, watched, renderer >>
    /\ UNCHANGED << otherVars, maintain_empty_vrf, _drivers, released,
                    tenants_file, _state, emitted, pc, stop, twin >>

\* poll, lines 84 and 88: the next event goes through registry.handle and the
\* adapter into the Driver
feed_dispatch ==
    /\ Polling
    /\ dispatch.pending # <<>>
    /\ LET event == Head(dispatch.pending)
       IN  IF event.kind = "NamespaceUpsert"
           THEN on_namespace_upsert(event.namespace, event.prefixes)
           ELSE on_namespace_delete(event.namespace)

\* the Driver has returned, and poll goes on with the next event; or it has
\* raised, and the error leaves poll with self._state as it was
feed_dispatched ==
    /\ Polling
    /\ call # NoCall
    /\ call' = NoCall
    /\ dispatch' = IF call.error = NoError
                   THEN [dispatch EXCEPT !.pending = Tail(@),
                                         !.reached = Append(@, Head(dispatch.pending))]
                   ELSE NoDispatch
    /\ UNCHANGED << registry, reverse, tenants, last_render, file, prev,
                    first_alloc, seen_vrf, watched, renderer >>
    /\ UNCHANGED << otherVars, maintain_empty_vrf, _drivers, released,
                    tenants_file, _state, emitted, pc, stop, twin >>

\* poll, line 90: every event was handled, the snapshot is replaced
feed_poll_end ==
    /\ Polling
    /\ call = NoCall
    /\ dispatch.pending = <<>>
    /\ _state' = _extract_state(Get(tenants_file))
    /\ dispatch' = NoDispatch
    /\ UNCHANGED << registry, reverse, tenants, last_render, file, call, prev,
                    first_alloc, seen_vrf, watched, renderer >>
    /\ UNCHANGED << otherVars, maintain_empty_vrf, _drivers, released,
                    tenants_file, emitted, pc, stop, twin >>

\* what the watcher's thread does next
feed_step == feed_poll \/ feed_dispatch \/ feed_dispatched \/ feed_poll_end

NextFeed ==
    \/ feed_poll
    \/ feed_dispatch
    \/ feed_dispatched
    \/ feed_poll_end
    \/ \E content \in {None} \cup {Some(d) : d \in FeedDocuments} :
          ~Polling /\ write_file(content)

SpecFeed == Init /\ [][NextFeed]_vars

\* the watcher's thread is scheduled again and again: run polls every
\* interval for as long as the agent runs
SpecFeedFair == SpecFeed /\ WF_vars(feed_step)

(***************************************************************************)
(* Watcher threads inside the Driver at once: each handles the upsert of a *)
(* namespace of its own that the Driver does not know, and runs            *)
(* ensure_namespace and allocate statement by statement; no lock is held   *)
(***************************************************************************)
\* the locals of a thread: where it is, the namespace, and allocate's
\* candidate, start and allocation
Local(at, namespace, candidate, start, allocation) ==
    [ at |-> at, namespace |-> namespace, candidate |-> candidate,
      start |-> start, allocation |-> allocation ]

Outside == Local("outside", NoNamespace, 0, 0, None)

\* the namespaces the other threads are handling
Handled(t) ==
    {local[u].namespace : u \in {v \in Watchers : v # t /\ local[v].at # "outside"}}

\* a step of a thread inside the Driver, as far as the rest goes
OnlyInside ==
    /\ UNCHANGED << last_render, file, call, prev, first_alloc, seen_vrf,
                    watched, renderer >>
    /\ UNCHANGED << writable, _current, _namespace_ips, maintain_empty_vrf,
                    _drivers, dispatch, released, tenants_file, _state,
                    emitted, pc, stop, twin >>

\* ensure_namespace, line 60: the namespace is not in the tenant map
race_ensure(t, namespace) ==
    /\ local[t].at = "outside"
    /\ namespace \notin Handled(t)
    /\ ~Known(tenants, namespace)
    /\ local' = [local EXCEPT ![t] = Local("allocate", namespace, 0, 0, None)]
    /\ UNCHANGED << registry, reverse, tenants >>
    /\ OnlyInside

\* allocate, lines 60-64: the registry test, the hash
race_allocate(t) ==
    /\ local[t].at = "allocate"
    /\ LET namespace == local[t].namespace
       IN  local' = [local EXCEPT ![t] =
               IF namespace \in DOMAIN registry
               THEN Local("context", namespace, 0, 0, Some(registry[namespace]))
               ELSE Local("probe", namespace, _hash_namespace(namespace),
                          _hash_namespace(namespace), None)]
    /\ UNCHANGED << registry, reverse, tenants >>
    /\ OnlyInside

\* allocate, lines 65-68: one test of the loop, and its body when the slot is
\* another namespace's
race_probe(t) ==
    /\ local[t].at = "probe"
    /\ LET l == local[t]
           next == (l.candidate + 1) % MaxId
       IN  local' = [local EXCEPT ![t] =
               IF l.candidate \in DOMAIN reverse
                  /\ reverse[l.candidate] # l.namespace
               THEN IF next = l.start THEN Outside
                    ELSE [l EXCEPT !.candidate = next]
               ELSE [l EXCEPT !.at = "registry"]]
    /\ UNCHANGED << registry, reverse, tenants >>
    /\ OnlyInside

\* allocate, lines 70-75
race_bind_registry(t) ==
    /\ local[t].at = "registry"
    /\ registry' = dict_set(registry, local[t].namespace,
                            Allocation(local[t].candidate))
    /\ local' = [local EXCEPT ![t].at = "reverse",
                              ![t].allocation = Some(Allocation(local[t].candidate))]
    /\ UNCHANGED << reverse, tenants >>
    /\ OnlyInside

\* allocate, lines 76-77
race_bind_reverse(t) ==
    /\ local[t].at = "reverse"
    /\ reverse' = dict_set(reverse, local[t].candidate, local[t].namespace)
    /\ local' = [local EXCEPT ![t].at = "context"]
    /\ UNCHANGED << registry, tenants >>
    /\ OnlyInside

\* ensure_namespace, lines 63-79: the context is built and put in the map
race_context(t) ==
    /\ local[t].at = "context"
    /\ LET namespace == local[t].namespace
           tenant == TenantContext(namespace,
                         VRFDefinition(namespace, Get(local[t].allocation)))
       IN  tenants' = IF Known(tenants, namespace)
                      THEN [i \in 1..Len(tenants) |->
                               IF tenants[i].namespace = namespace THEN tenant
                               ELSE tenants[i]]
                      ELSE Append(tenants, tenant)
    /\ local' = [local EXCEPT ![t] = Outside]
    /\ UNCHANGED << registry, reverse >>
    /\ OnlyInside

InitRace ==
    /\ registry = EmptyDict
    /\ reverse = EmptyDict
    /\ tenants = <<>>
    /\ last_render = None
    /\ file = None
    /\ call = NoCall
    /\ prev = Summary(NoCall)
    /\ first_alloc = EmptyDict
    /\ seen_vrf = [n \in Namespaces |-> {}]
    /\ watched = None
    /\ renderer = [ config |-> config, include_globals |-> include_globals ]
    /\ maintain_empty_vrf = TRUE
    /\ _drivers = << [name |-> "vpnv4", driver |-> "adapter"] >>
    /\ dispatch = NoDispatch
    /\ released = {}
    /\ tenants_file = None
    /\ _state = <<>>
    /\ emitted = <<>>
    /\ pc = EmptyDict
    /\ stop = FALSE
    /\ twin = NoTwin
    /\ writable = TRUE
    /\ _current = <<>>
    /\ _namespace_ips = <<>>
    /\ local = [t \in Watchers |-> Outside]

NextRace ==
    \/ \E t \in Watchers, n \in AllocNamespaces : race_ensure(t, n)
    \/ \E t \in Watchers : race_allocate(t)
    \/ \E t \in Watchers : race_probe(t)
    \/ \E t \in Watchers : race_bind_registry(t)
    \/ \E t \in Watchers : race_bind_reverse(t)
    \/ \E t \in Watchers : race_context(t)

SpecRace == InitRace /\ [][NextRace]_vars

(***************************************************************************)
(* VPNv4UpstreamDriver: expose_ip and withdraw_ip over the Driver          *)
(***************************************************************************)
KeyError == "KeyError"

\* expose_ip lines 215-216, withdraw_ip lines 251-252 and 265-266: a string
\* without "/" gets "/32", or "/128" when it holds a ":"
upstream_normalize(ip) ==
    IF HasMask(ip) THEN ip
    ELSE IF ip.address = "fd00::1" THEN PrefixText(ip.address, Some("128"))
    ELSE PrefixText(ip.address, Some("32"))

\* the prefix string as the Driver gets it
PrefixString(value) == value.address \o "/" \o Get(value.mask)

\* the IP lists the upstream agent calls with
UpstreamIPs == { {}, {Bare4}, {Masked}, {Bare4, Masked}, {Bare4Masked} }

\* the namespace _extract_namespace finds for a row: None when it finds none
RowNamespaces == {None} \cup {Some(n) : n \in Namespaces}

\* self._namespace_ips.get(namespace)
ips_get(tracked, namespace) == current_get(tracked, namespace)

\* withdraw_ip lines 249-257: the first tracked namespace that holds one of
\* the IPs; None when there is none
FindNamespace(tracked, ips) ==
    LET holding == SelectSeq(tracked, LAMBDA e :
                       \E ip \in ips : upstream_normalize(ip) \in e.prefixes)
    IN  IF holding = <<>> THEN None ELSE Some(holding[1].namespace)

\* sorted(self._namespace_ips[namespace]), as the Driver gets it
SortedStrings(ips) ==
    LET ordered == sorted(ips)
    IN  [i \in 1..Len(ordered) |-> PrefixString(ordered[i])]

\* no call of the upstream driver is under way
UpstreamIdle == dispatch = NoDispatch /\ call = NoCall

\* what an upstream call leaves alone besides the Driver
OnlyUpstream ==
    /\ UNCHANGED << registry, reverse, tenants, last_render, file, call, prev,
                    first_alloc, seen_vrf, watched, renderer >>
    /\ UNCHANGED << writable, _current, local, maintain_empty_vrf, _drivers,
                    released, tenants_file, _state, emitted, pc, stop, twin >>

\* expose_ip up to line 220: the IPs are added to the namespace's set; the
\* Driver call of line 221 is still to make
expose_ip(ips, row) ==
    /\ UpstreamIdle
    /\ IF ips = {} \/ row = None
       THEN /\ dispatch' = Dispatch("expose_ip", "", OtherEvent, NoError,
                                    <<>>, <<>>)
            /\ UNCHANGED _namespace_ips
       ELSE LET namespace == Get(row)
                before == IF ips_get(_namespace_ips, namespace) = None THEN {}
                          ELSE Get(ips_get(_namespace_ips, namespace))
                after == before \cup {upstream_normalize(ip) : ip \in ips}
            IN  /\ _namespace_ips' = current_set(_namespace_ips, namespace, after)
                /\ dispatch' = Dispatch("expose_ip", namespace, OtherEvent,
                                   NoError,
                                   << NamespaceUpsert(namespace,
                                                      SortedStrings(after)) >>,
                                   <<>>)
    /\ OnlyUpstream

\* withdraw_ip up to line 270: the namespace is the row's, or the first
\* tracked one that holds one of the IPs; the IPs are discarded from
\* self._namespace_ips[namespace], which raises KeyError when the namespace
\* has no entry; the Driver call of line 272 or 275 is still to make
withdraw_ip(ips, row) ==
    /\ UpstreamIdle
    /\ LET found == IF row # None THEN row
                    ELSE FindNamespace(_namespace_ips, ips)
       IN  IF ips = {} \/ found = None
           THEN /\ dispatch' = Dispatch("withdraw_ip", "", OtherEvent, NoError,
                                        <<>>, <<>>)
                /\ UNCHANGED _namespace_ips
           ELSE IF ips_get(_namespace_ips, Get(found)) = None
           THEN /\ dispatch' = Dispatch("withdraw_ip", Get(found), OtherEvent,
                                        KeyError, <<>>, <<>>)
                /\ UNCHANGED _namespace_ips
           ELSE LET namespace == Get(found)
                    after == Get(ips_get(_namespace_ips, namespace))
                                \ {upstream_normalize(ip) : ip \in ips}
                IN  /\ _namespace_ips' =
                          current_set(_namespace_ips, namespace, after)
                    /\ dispatch' = Dispatch("withdraw_ip", namespace, OtherEvent,
                                       NoError,
                                       << IF after # {}
                                          THEN NamespaceUpsert(namespace,
                                                   SortedStrings(after))
                                          ELSE NamespaceDelete(namespace) >>,
                                       <<>>)
    /\ OnlyUpstream

\* expose_ip line 221, withdraw_ip lines 272 and 275: the call of the Driver
upstream_calls_driver ==
    /\ dispatch.pending # <<>>
    /\ LET event == Head(dispatch.pending)
       IN  IF event.kind = "NamespaceUpsert"
           THEN synchronize_prefixes(event.namespace, event.prefixes)
           ELSE withdraw_namespace(event.namespace)

\* the Driver has returned or raised; after withdraw_namespace has returned,
\* withdraw_ip deletes the namespace's entry (line 276)
upstream_driver_returned ==
    /\ dispatch.pending # <<>>
    /\ call # NoCall
    /\ call' = NoCall
    /\ dispatch' = [dispatch EXCEPT !.pending = <<>>, !.error = call.error,
                                    !.reached = dispatch.pending]
    /\ _namespace_ips' =
          IF Head(dispatch.pending).kind = "NamespaceDelete"
             /\ call.error = NoError
          THEN current_del(_namespace_ips, dispatch.name)
          ELSE _namespace_ips
    /\ UNCHANGED << registry, reverse, tenants, last_render, file, prev,
                    first_alloc, seen_vrf, watched, renderer >>
    /\ UNCHANGED << writable, _current, local, maintain_empty_vrf, _drivers,
                    released, tenants_file, _state, emitted, pc, stop, twin >>

\* the upstream agent takes the outcome of the call
upstream_returned ==
    /\ dispatch # NoDispatch
    /\ dispatch.pending = <<>>
    /\ call = NoCall
    /\ dispatch' = NoDispatch
    /\ UNCHANGED _namespace_ips
    /\ OnlyUpstream

NextUpstream ==
    \/ \E ips \in UpstreamIPs, row \in RowNamespaces : expose_ip(ips, row)
    \/ \E ips \in UpstreamIPs, row \in RowNamespaces : withdraw_ip(ips, row)
    \/ upstream_calls_driver
    \/ upstream_driver_returned
    \/ upstream_returned

\* VPNv4UpstreamDriver.__init__: a Driver that renders the global sections,
\* no IP tracked
InitUpstream ==
    /\ InitGlobals
    /\ renderer = [ config |-> config, include_globals |-> TRUE ]

SpecUpstream == InitUpstream /\ [][NextUpstream]_vars

(***************************************************************************)
(* Properties                                                              *)
(***************************************************************************)
\* number of positions of xs that hold x
Count(xs, x) == Cardinality({i \in 1..Len(xs) : xs[i] = x})

NoDuplicates(xs) == \A i, j \in 1..Len(xs) : xs[i] = xs[j] => i = j

\* last_render is the rendering of the tenant list ts, and the file holds it
RenderedFrom(lr, f, ts) ==
    LET text == RenderOf(ts)
    IN  /\ lr = Some(RenderResult(text))
        /\ f = Some(text)

\* C1: for any namespace ns (known or not) and any input P whose first-occurrence
\* de-duplication D differs from the list stored for ns, synchronize_prefixes(ns, P)
\* completes without error, leaves the stored list of ns equal to D (one network
\* line per distinct prefix of P) and stores a last render that is the rendering
\* of the current tenant set.
C1_SyncReplacesAndRenders ==
    [][\A n \in Namespaces, p \in PrefixInputs :
          ( /\ call'.op = "synchronize_prefixes" /\ call'.namespace = n
            /\ dict_fromkeys(p) # StoredPrefixes(tenants, n)
            /\ Allocate(n, registry, reverse).error = NoError
            /\ synchronize_prefixes(n, p) )
          => /\ call'.error = NoError
             /\ StoredPrefixes(tenants', n) = dict_fromkeys(p)
             /\ \A x \in Range(p) :
                   Count(Get(last_render').config_text, NetworkLine(x)) = 1
             /\ RenderedFrom(last_render', file', tenants')]_vars

\* C2: when ns is known and the de-duplication of P equals the list stored for
\* ns, synchronize_prefixes(ns, P) returns without rendering: the tenant map,
\* every prefix list, the last render and the output file are unchanged.
C2_SyncUnchangedIsNoOp ==
    [][\A n \in Namespaces, p \in PrefixInputs :
          ( /\ call'.op = "synchronize_prefixes" /\ call'.namespace = n
            /\ Known(tenants, n)
            /\ dict_fromkeys(p) = StoredPrefixes(tenants, n)
            /\ synchronize_prefixes(n, p) )
          => /\ call'.error = NoError
             /\ ~call'.rendered
             /\ UNCHANGED << tenants, last_render, file >>]_vars

\* a synchronize_prefixes call on a known namespace with a non-empty stored
\* list has returned without rendering
C2_Witness ==
    /\ call.op = "synchronize_prefixes"
    /\ call.error = NoError
    /\ call.created = "no"
    /\ ~call.rendered
    /\ StoredPrefixes(tenants, call.namespace) # <<>>
    /\ Len(tenants) = 2

\* The call before this one was synchronize_prefixes(n, p1): prev names the
\* operation and the namespace, and its outcome is the one the input p1 gives
\* (the call never changes the stored list, so the list it compared p1 with is
\* the one stored now).
AfterSync(n, p1) ==
    /\ prev.op = "synchronize_prefixes"
    /\ prev.namespace = n
    /\ prev.error # AllocatorExhausted
    /\ prev.error = NoError <=> dict_fromkeys(p1) = StoredPrefixes(tenants, n)

\* C3: for every namespace ns and inputs P1, P2 holding the same set of prefixes
\* (any order, any duplicates), synchronize_prefixes(ns, P1) followed by
\* synchronize_prefixes(ns, P2) both return, the second call renders nothing, and
\* get_rendered_config() after the second call equals its value after the first.
C3_SyncTwiceSameSet ==
    [][\A n \in Namespaces, p1, p2 \in PrefixInputs :
          ( /\ call'.op = "synchronize_prefixes" /\ call'.namespace = n
            /\ Range(p1) = Range(p2)
            /\ AfterSync(n, p1)
            /\ synchronize_prefixes(n, p2) )
          => /\ prev.error = NoError
             /\ call'.error = NoError
             /\ ~call'.rendered
             /\ get_rendered_config' = get_rendered_config]_vars

\* C4: the namespace-to-identifier binding is a bijection over the allocated
\* entries: two distinct allocated namespaces never hold the same rd, import_rt
\* or export_rt, and the reverse map binds every identifier to one allocated
\* namespace that holds exactly that identifier.
C4_AllocatorBijection ==
    /\ \A n1, n2 \in DOMAIN registry :
          n1 # n2 => /\ registry[n1].rd # registry[n2].rd
                     /\ registry[n1].import_rt # registry[n2].import_rt
                     /\ registry[n1].export_rt # registry[n2].export_rt
    /\ DOMAIN reverse \subseteq 0..(MaxId - 1)
    /\ \A i \in DOMAIN reverse :
          /\ reverse[i] \in DOMAIN registry
          /\ registry[reverse[i]] = Allocation(i)
    /\ \A n \in DOMAIN registry :
          Cardinality({i \in DOMAIN reverse : reverse[i] = n}) = 1

\* two namespaces that hash to the same identifier are both allocated
C4_Witness ==
    \E n1, n2 \in DOMAIN registry :
        /\ n1 # n2
        /\ _hash_namespace(n1) = _hash_namespace(n2)

\* C5: every allocate(n) returns what the first allocate(n) returned, whatever
\* was allocated in between, and a repeated allocate(n) changes neither the
\* registry nor the reverse map.
C5_AllocateIdempotent ==
    [][\A n \in AllocNamespaces :
          ( call'.op = "allocate" /\ call'.namespace = n /\ allocate(n) ) =>
             /\ call'.error = NoError => Get(call'.result) = first_alloc'[n]
             /\ n \in DOMAIN first_alloc =>
                   /\ call'.error = NoError
                   /\ UNCHANGED << registry, reverse >>]_vars

\* allocate has been repeated for a namespace that does not sit in its hashed
\* slot, after another namespace was allocated
C5_Witness ==
    /\ call.op = "allocate"
    /\ call.error = NoError
    /\ call.created = "no"
    /\ Cardinality(DOMAIN registry) >= 2
    /\ call.result = Some(first_alloc[call.namespace])
    /\ call.result # Some(Allocation(_hash_namespace(call.namespace)))

\* C6: when all MaxId identifiers are bound to other namespaces, allocate(n) for
\* a new namespace n raises the exhaustion error and leaves the allocator as it
\* was: registry and reverse map unchanged, n not bound, every allocated
\* namespace still bound to its first allocation.
C6_ExhaustionLeavesAllocator ==
    [][\A n \in AllocNamespaces :
          ( /\ call'.op = "allocate" /\ call'.namespace = n
            /\ n \notin DOMAIN registry
            /\ DOMAIN reverse = 0..(MaxId - 1)
            /\ allocate(n) )
          => /\ call'.error = AllocatorExhausted
             /\ UNCHANGED << registry, reverse >>
             /\ n \notin DOMAIN registry'
             /\ \A m \in DOMAIN registry : registry'[m] = first_alloc[m]]_vars

\* allocate has raised the exhaustion error
C6_Witness ==
    /\ call.op = "allocate"
    /\ call.error = AllocatorExhausted
    /\ call.namespace \notin DOMAIN registry
    /\ Cardinality(DOMAIN registry) = MaxId

\* C7: the VRF identifiers of a namespace never change once assigned: every
\* tenant context ever created for a namespace, one re-created after
\* withdraw_namespace included, carries the same rd, import_rts and export_rts.
C7_VrfIdentifiersStable ==
    \A n \in Namespaces :
        /\ \A v1, v2 \in seen_vrf[n] :
              /\ v1.rd = v2.rd
              /\ v1.import_rts = v2.import_rts
              /\ v1.export_rts = v2.export_rts
        /\ Known(tenants, n) => TenantOf(tenants, n).vrf \in seen_vrf[n]

\* a context has been created again for a namespace that was withdrawn, while
\* the other namespace is a tenant
C7_Witness ==
    /\ call.created = "again"
    /\ Len(tenants) = 2

\* C8: no tenant's advertised_prefixes ever contains the same prefix twice.
C8_NoDuplicatePrefixes ==
    \A i \in 1..Len(tenants) : NoDuplicates(tenants[i].advertised_prefixes)

\* C9: after advertise_prefixes(ns, P) the stored list of ns is the previous
\* list followed by exactly the elements of P that were not in it, each once,
\* in the order of their first occurrence in P.
C9_AdvertiseAppendsMissingOnce ==
    [][\A n \in Namespaces, p \in PrefixInputs :
          ( /\ call'.op = "advertise_prefixes" /\ call'.namespace = n
            /\ call'.error = NoError
            /\ advertise_prefixes(n, p) )
          => StoredPrefixes(tenants', n) =
                StoredPrefixes(tenants, n)
                \o SelectSeq(dict_fromkeys(p),
                             LAMBDA x : x \notin Range(StoredPrefixes(tenants, n)))]_vars

\* C10: every advertise_prefixes(ns, P) that returns has created the namespace
\* if it was unknown and has rendered, also when P adds nothing: ns is in
\* list_tenants(), the last render is the rendering of the current tenant set
\* and holds a network line for every prefix of P.
C10_AdvertiseAlwaysRenders ==
    [][( call'.op = "advertise_prefixes" /\ call'.error = NoError )
          => /\ \E i \in 1..Len(list_tenants') :
                   list_tenants'[i].namespace = call'.namespace
             /\ call'.rendered
             /\ RenderedFrom(last_render', file', tenants')
             /\ \A p \in PrefixInputs :
                   advertise_prefixes(call'.namespace, p)
                   => \A x \in Range(p) :
                         NetworkLine(x) \in Range(Get(get_rendered_config'))]_vars

\* advertise_prefixes has returned for a namespace it had to create, with the
\* last render showing two tenants
C10_Witness ==
    /\ call.op = "advertise_prefixes"
    /\ call.error = NoError
    /\ call.created = "first"
    /\ call.rendered
    /\ Len(tenants) = 2
    /\ RenderedFrom(last_render, file, tenants)

\* the tenants of ts other than namespace, in order
Others(ts, namespace) == SelectSeq(ts, LAMBDA t : t.namespace # namespace)

\* C11: for an existing namespace ns, withdraw_prefixes(ns, P) leaves the stored
\* list equal to the previous list without every prefix that occurs in P, the
\* rest in their order; prefixes of P not stored are ignored without error, the
\* other tenants are unchanged and a render is performed.
C11_WithdrawRemovesListed ==
    [][\A n \in Namespaces, p \in PrefixInputs :
          ( /\ call'.op = "withdraw_prefixes" /\ call'.namespace = n
            /\ Known(tenants, n)
            /\ withdraw_prefixes(n, p) )
          => /\ call'.error = NoError
             /\ StoredPrefixes(tenants', n) =
                   SelectSeq(StoredPrefixes(tenants, n),
                             LAMBDA x : x \notin Range(p))
             /\ Others(tenants', n) = Others(tenants, n)
             /\ call'.rendered
             /\ RenderedFrom(last_render', file', tenants')]_vars

\* C12: for a namespace that is not in the tenant map, withdraw_namespace(ns)
\* and withdraw_prefixes(ns, P) return None without raising and change nothing:
\* no tenant is created, the allocator is left alone, nothing is rendered, the
\* last render and the output file are as before.
C12_WithdrawUnknownIsNoOp ==
    [][\A n \in Namespaces :
          ( /\ call'.op \in {"withdraw_namespace", "withdraw_prefixes"}
            /\ call'.namespace = n
            /\ ~Known(tenants, n)
            /\ \/ withdraw_namespace(n)
               \/ \E p \in PrefixInputs : withdraw_prefixes(n, p) )
          => /\ call'.error = NoError
             /\ call'.result = None
             /\ ~call'.rendered
             /\ UNCHANGED << tenants, registry, reverse, first_alloc,
                             last_render, file >>]_vars

\* a withdrawal has returned None for a namespace that has no context while
\* another namespace is a tenant and a render is stored
C12_Witness ==
    /\ call.op \in {"withdraw_namespace", "withdraw_prefixes"}
    /\ call.error = NoError
    /\ call.result = None
    /\ ~Known(tenants, call.namespace)
    /\ Len(tenants) = 1
    /\ last_render # None

\* C13: after withdraw_namespace(ns) on an existing namespace, list_tenants()
\* holds no entry for ns, every other tenant and its prefix list is unchanged,
\* the removed context is returned, and the stored last render is a fresh
\* rendering (of the remaining tenants) with no VRF block for ns.
C13_WithdrawNamespaceRemoves ==
    [][\A n \in Namespaces :
          ( /\ call'.op = "withdraw_namespace" /\ call'.namespace = n
            /\ Known(tenants, n)
            /\ withdraw_namespace(n) )
          => /\ \A i \in 1..Len(list_tenants') : list_tenants'[i].namespace # n
             /\ list_tenants' = Others(tenants, n)
             /\ call'.error = NoError
             /\ call'.result = Some(TenantOf(tenants, n))
             /\ call'.rendered
             /\ RenderedFrom(last_render', file', tenants')
             /\ VrfHeaderLine(config, n)
                   \notin Range(Get(get_rendered_config'))]_vars

\* withdraw_namespace has returned the context of a namespace that had
\* prefixes, while the other namespace stays a tenant with prefixes
C13_Witness ==
    /\ call.op = "withdraw_namespace"
    /\ call.result # None
    /\ Get(call.result).advertised_prefixes # <<>>
    /\ Len(tenants) = 1
    /\ tenants[1].advertised_prefixes # <<>>
    /\ RenderedFrom(last_render, file, tenants)

\* the first lines of the VRF blocks of the namespaces
VrfHeaderLines == {VrfHeaderLine(config, n) : n \in Namespaces}

IsNetworkLine(line) == \E x \in Prefixes : line = NetworkLine(x)

\* the VRF block of name in text: from its first line to the "!" that ends it
BlockOf(text, name) ==
    LET first == CHOOSE i \in 1..Len(text) : text[i] = VrfHeaderLine(config, name)
        last  == CHOOSE j \in first..Len(text) :
                     /\ text[j] = "!"
                     /\ \A k \in first..(j - 1) : text[k] # "!"
    IN  SubSeq(text, first, last)

\* C14: in every render (the state a rendering call leaves: the text it stored
\* and the tenant list it rendered) each tenant gets exactly one VRF block; a
\* tenant with an empty prefix list gets the placeholder line
\* '! no prefixes advertised yet' and no network line, a tenant with a non-empty
\* list gets one network line per stored prefix, in stored order, and no
\* placeholder line.
C14_VrfBlockPerTenant ==
    call.rendered =>
        LET text == Get(last_render).config_text
        IN  /\ Cardinality({i \in 1..Len(text) : text[i] \in VrfHeaderLines})
                  = Len(tenants)
            /\ \A k \in 1..Len(tenants) :
                  LET name     == tenants[k].namespace
                      prefixes == tenants[k].advertised_prefixes
                      block    == BlockOf(text, name)
                  IN  /\ Count(text, VrfHeaderLine(config, name)) = 1
                      /\ SelectSeq(block, IsNetworkLine) =
                            [i \in 1..Len(prefixes) |-> NetworkLine(prefixes[i])]
                      /\ Count(block, NoPrefixesLine) =
                            IF prefixes = <<>> THEN 1 ELSE 0

\* a render has covered a tenant without prefixes and a tenant with two
C14_Witness ==
    /\ call.rendered
    /\ RenderedFrom(last_render, file, tenants)
    /\ \E i, j \in 1..Len(tenants) :
          /\ tenants[i].advertised_prefixes = <<>>
          /\ Len(tenants[j].advertised_prefixes) = 2

\* C15: ensure_namespace(ns) never renders and is idempotent: for an existing ns
\* it returns the existing context, the allocator is not called and the prefix
\* list is untouched; for a new ns (that the allocator can serve) it adds exactly
\* one tenant, with an empty prefix list; in every case the stored last render
\* and the output file are unchanged.
C15_EnsureNamespaceFrame ==
    [][\A n \in Namespaces :
          ( /\ call'.op = "ensure_namespace" /\ call'.namespace = n
            /\ ensure_namespace(n) )
          => /\ ~call'.rendered
             /\ UNCHANGED << last_render, file >>
             /\ Known(tenants, n) =>
                   /\ call'.error = NoError
                   /\ call'.result = Some(TenantOf(tenants, n))
                   /\ EnsureNamespace(n, tenants, registry, reverse).allocated = None
                   /\ UNCHANGED << tenants, registry, reverse >>
             /\ (~Known(tenants, n) /\ call'.error = NoError) =>
                   /\ Len(tenants') = Len(tenants) + 1
                   /\ SubSeq(tenants', 1, Len(tenants)) = tenants
                   /\ tenants'[Len(tenants')].namespace = n
                   /\ tenants'[Len(tenants')].advertised_prefixes = <<>>
                   /\ call'.result = Some(tenants'[Len(tenants')])]_vars

\* ensure_namespace has returned the existing context of a namespace that has
\* prefixes, after a render, the other namespace being a tenant too
C15_Witness ==
    /\ call.op = "ensure_namespace"
    /\ call.error = NoError
    /\ call.created = "no"
    /\ Get(call.result).advertised_prefixes # <<>>
    /\ Len(tenants) = 2
    /\ last_render # None

\* C16: if the allocator is exhausted when ensure_namespace, advertise_prefixes
\* or synchronize_prefixes is called for a new namespace, the call fails with
\* the allocator's error and the Driver is unchanged: the namespace is not in
\* the tenant map, no tenant is altered and nothing is rendered.
C16_ExhaustionLeavesDriver ==
    [][\A n \in Namespaces :
          ( /\ call'.op \in {"ensure_namespace", "advertise_prefixes",
                             "synchronize_prefixes"}
            /\ call'.namespace = n
            /\ ~Known(tenants, n)
            /\ Allocate(n, registry, reverse).error = AllocatorExhausted
            /\ \/ ensure_namespace(n)
               \/ \E p \in PrefixInputs : advertise_prefixes(n, p)
               \/ \E p \in PrefixInputs : synchronize_prefixes(n, p) )
          => /\ call'.error = AllocatorExhausted
             /\ ~Known(tenants', n)
             /\ ~call'.rendered
             /\ UNCHANGED << tenants, registry, reverse, last_render, file >>]_vars

\* a Driver operation has failed with the allocator's error while the Driver
\* holds a tenant with prefixes and a render
C16_Witness ==
    /\ call.op \in {"ensure_namespace", "advertise_prefixes",
                    "synchronize_prefixes"}
    /\ call.error = AllocatorExhausted
    /\ ~Known(tenants, call.namespace)
    /\ Len(tenants) = 1
    /\ tenants[1].advertised_prefixes # <<>>
    /\ RenderedFrom(last_render, file, tenants)

\* C17: get_rendered_config() is None until the first render; after every
\* render() and sync() that returns, it is the renderer's output for exactly the
\* tenants list_tenants() returns at that moment, and the content of
\* <output_dir>/vpnv4.conf is that same text and nothing else.
C17_RenderedConfigIsCurrent ==
    /\ get_rendered_config = None
    /\ [][/\ (get_rendered_config = None /\ get_rendered_config' # None)
                => call'.rendered
          /\ (call'.op \in {"render", "sync"} /\ call'.error = NoError)
                => /\ get_rendered_config' = Some(RenderOf(list_tenants'))
                   /\ file' = get_rendered_config'
                   /\ call'.result = last_render']_vars

\* sync() has returned with two tenants, one with prefixes and one without, the
\* file holding the text it rendered
C17_Witness ==
    /\ call.op = "sync"
    /\ call.error = NoError
    /\ Len(tenants) = 2
    /\ tenants[1].advertised_prefixes # <<>>
    /\ tenants[2].advertised_prefixes = <<>>
    /\ file = Some(RenderOf(tenants))
    /\ get_rendered_config = file

RouterBgpLine(cfg) == "router bgp " \o ToString(cfg.local_asn)

\* the rank of the section a line opens; 0 for a line that opens none
SectionRank(line) ==
    CASE line = FRR_HEADER[2] -> 1
      [] line = RouterBgpLine(renderer.config) -> 2
      [] line \in VrfHeaderLines -> 3
      [] line \in {_render_route_maps[1], _render_route_maps[3]} -> 4
      [] line = "line vty" -> 5
      [] OTHER -> 0

\* the namespaces of a tenant list, in its order
NamesOf(ts) == [i \in 1..Len(ts) |-> ts[i].namespace]

\* C19: in every rendered text the sections come in the order header and
\* neighbour block (these only with global sections), VRF blocks, route-map
\* stanzas, 'line vty'; the VRF blocks come in the order in which their
\* namespaces were inserted into the Driver's tenant map, a namespace created
\* again after its withdrawal taking the last position.
C19_SectionOrder ==
    /\ [](call.rendered =>
             LET text == Get(last_render).config_text
                 ranks == SelectSeq([i \in 1..Len(text) |-> SectionRank(text[i])],
                                    LAMBDA r : r # 0)
             IN  /\ \A i \in 1..(Len(ranks) - 1) : ranks[i] <= ranks[i + 1]
                 /\ (\E i \in 1..Len(ranks) : ranks[i] \in {1, 2})
                       => renderer.include_globals
                 /\ SelectSeq(text, LAMBDA l : l \in VrfHeaderLines) =
                       [k \in 1..Len(tenants) |->
                           VrfHeaderLine(renderer.config, tenants[k].namespace)])
    /\ [][NamesOf(tenants') =
             IF call'.created # "no" /\ call'.op # "allocate"
             THEN Append(NamesOf(tenants), call'.namespace)
             ELSE SelectSeq(NamesOf(tenants),
                            LAMBDA n : ~( /\ call'.op = "withdraw_namespace"
                                          /\ call'.namespace = n ))]_vars

\* a render with global sections and a neighbour has covered two tenants, the
\* second one created again after its withdrawal
C19_Witness ==
    /\ call.rendered
    /\ call.created = "again"
    /\ Len(tenants) = 2
    /\ tenants[2].namespace = call.namespace
    /\ renderer.include_globals
    /\ renderer.config.neighbours # <<>>
    /\ RenderedFrom(last_render, file, tenants)

\* text holds the lines of part, one after the other
HoldsLines(text, part) ==
    \E i \in 0..(Len(text) - Len(part)) :
        SubSeq(text, i + 1, i + Len(part)) = part

\* C20: for both values of include_globals, the rendered text holds the two
\* route-map stanzas (vpnv4-import and vpnv4-export) exactly when at least one
\* neighbour is configured; the header, the global 'router bgp' block and the
\* final 'line vty' stanza appear exactly when include_globals is set.
C20_RouteMapsAndGlobals ==
    call.rendered =>
        LET text == Get(last_render).config_text
            cfg  == renderer.config
        IN  /\ HoldsLines(text, _render_route_maps) <=> cfg.neighbours # <<>>
            /\ \A k \in {1, 3} :
                  Count(text, _render_route_maps[k]) =
                     IF cfg.neighbours # <<>> THEN 1 ELSE 0
            /\ ( /\ Len(text) >= Len(FRR_HEADER)
                 /\ SubSeq(text, 1, Len(FRR_HEADER)) = FRR_HEADER )
                  <=> renderer.include_globals
            /\ HoldsLines(text, _render_neighbors(cfg, cfg.neighbours))
                  <=> renderer.include_globals
            /\ ( /\ Len(text) >= 2
                 /\ SubSeq(text, Len(text) - 1, Len(text)) = <<"line vty", "!">> )
                  <=> renderer.include_globals
            /\ Count(text, "line vty") = IF renderer.include_globals THEN 1 ELSE 0

\* a render with global sections and no neighbour has covered two tenants
C20_Witness ==
    /\ call.op = "sync"
    /\ call.rendered
    /\ renderer.include_globals
    /\ renderer.config.neighbours = <<>>
    /\ Len(tenants) = 2
    /\ RenderedFrom(last_render, file, tenants)

\* C21: DriverRegistry.register of a name that is already registered raises
\* and leaves the registry as it was, so the driver first bound to the name
\* stays bound and is the one handle goes on calling; unregister of a name
\* that is not registered changes nothing and raises nothing; and register of
\* a name that is not registered, one that unregister has removed included,
\* binds it after the registrations there are.
C21_RegisterUnregister ==
    [][ /\ \A name \in DriverNames, d \in DriverObjects :
              (dispatch'.name = name /\ register(name, d)) =>
                 IF Registered(_drivers, name)
                 THEN /\ dispatch'.error = ValueError
                      /\ _drivers' = _drivers
                 ELSE /\ dispatch'.error = NoError
                      /\ _drivers' =
                            Append(_drivers, [name |-> name, driver |-> d])
        /\ \A name \in DriverNames :
              (dispatch'.name = name /\ unregister(name)
                  /\ ~Registered(_drivers, name)) =>
                 /\ dispatch'.error = NoError
                 /\ _drivers' = _drivers
        /\ \A event \in Events \ {OtherEvent} :
              (dispatch'.event = event /\ handle(event)) =>
                 dispatch'.pending = _drivers ]_vars

\* a name that was registered, unregistered and registered again is bound, and
\* a further register of it has just been refused
C21_Witness ==
    /\ dispatch.op = "register"
    /\ dispatch.error = ValueError
    /\ dispatch.name \in released
    /\ Registered(_drivers, dispatch.name)

\* C22: when DriverRegistry.handle has ended, a NamespaceUpsert or
\* NamespaceDelete has been handed to the driver of every registration, once
\* each and in registration order, and to no other driver; any other event
\* has raised TypeError and has been handed to no driver.  While handle runs,
\* the drivers called so far are the first registrations, in order.
C22_HandleReachesEveryDriver ==
    dispatch.op = "handle" =>
       IF dispatch.event.kind \in {"NamespaceUpsert", "NamespaceDelete"}
       THEN /\ dispatch.reached \o dispatch.pending = _drivers
            /\ dispatch.pending = <<>> /\ call = NoCall =>
                  dispatch.reached = _drivers
       ELSE /\ dispatch.error = TypeError
            /\ dispatch.reached = <<>>
            /\ dispatch.pending = <<>>

\* C23: for any namespace, known to the Driver or not, when the adapter has
\* handled a NamespaceUpsert with an empty prefix list: with maintain_empty_vrf
\* set the namespace is a tenant with no prefixes and the rendered config
\* holds its VRF block with the placeholder line and no network line; with it
\* unset the namespace is no tenant and the rendered config, if there is one,
\* holds no VRF block for it.
C23_EmptyUpsert ==
    [][ \A n \in Namespaces :
           (call'.namespace = n /\ on_namespace_upsert(n, <<>>)) =>
              IF maintain_empty_vrf
              THEN /\ Known(tenants', n)
                   /\ StoredPrefixes(tenants', n) = <<>>
                   /\ last_render' # None
                   /\ LET text == Get(last_render').config_text
                      IN  /\ Count(text, VrfHeaderLine(renderer.config, n)) = 1
                          /\ Count(BlockOf(text, n), NoPrefixesLine) = 1
                          /\ \A i \in 1..Len(BlockOf(text, n)) :
                                ~IsNetworkLine(BlockOf(text, n)[i])
              ELSE /\ ~Known(tenants', n)
                   /\ last_render' # None =>
                         Count(Get(last_render').config_text,
                               VrfHeaderLine(renderer.config, n)) = 0 ]_vars

\* the events of one kind for one namespace among events
EventsFor(events, kind, namespace) ==
    {i \in 1..Len(events) :
        events[i].kind = kind /\ events[i].namespace = namespace}

\* C24: a FileNamespaceWatcher.poll that read the file and ended without an
\* error has emitted exactly one NamespaceUpsert, with the file's prefixes,
\* for each namespace of the file that is new or whose prefix set differs from
\* the snapshot's, exactly one NamespaceDelete for each namespace of the
\* snapshot that the file does not hold, and no other event: none for a
\* namespace whose prefix set is unchanged.  After it the snapshot is the
\* file's mapping, so a poll of a file that gives the snapshot emits nothing.
C24_PollEmitsTheDifference ==
    [][ (call = NoCall /\ call'.op = "poll" /\ call'.error = NoError
            /\ call'.result # None) =>
           LET desired == Get(call'.result)
               changed(n) ==
                  /\ InState(desired, n)
                  /\ \/ ~InState(_state, n)
                     \/ Range(Get(state_get(_state, n)))
                           # Range(Get(state_get(desired, n)))
               gone(n) == InState(_state, n) /\ ~InState(desired, n)
           IN  /\ \A n \in Namespaces :
                     /\ Cardinality(EventsFor(emitted', "NamespaceUpsert", n))
                           = IF changed(n) THEN 1 ELSE 0
                     /\ Cardinality(EventsFor(emitted', "NamespaceDelete", n))
                           = IF gone(n) THEN 1 ELSE 0
                     /\ \A i \in EventsFor(emitted', "NamespaceUpsert", n) :
                           Some(emitted'[i].prefixes) = state_get(desired, n)
               /\ Len(emitted') =
                     Cardinality({n \in Namespaces : changed(n) \/ gone(n)})
               /\ _state' = desired
               /\ desired = _state => emitted' = <<>> ]_vars

\* C25: every prefix string of a NamespaceUpsert that the file watcher hands
\* on, which the registry and the adapter pass unchanged to the Driver's
\* synchronize_prefixes, holds a "/" and a mask: it is what normalize_prefix
\* makes of a string, '<addr>/32' for an IPv4 address without a mask,
\* '<addr>/128' for any other, and the string itself when it has a mask.
C25_HandedPrefixesCarryMask ==
    \A i \in 1..Len(emitted) :
       emitted[i].kind = "NamespaceUpsert" =>
          \A j \in 1..Len(emitted[i].prefixes) :
             /\ HasMask(emitted[i].prefixes[j])
             /\ emitted[i].prefixes[j] = normalize_prefix(emitted[i].prefixes[j])

\* the threads inside DriverRegistry.handle, and so inside the Driver
\* operation the adapter calls from it
InHandle == {t \in Threads : pc[t].at = "handle"}

\* C26: with two or more watchers on one registry and Driver, the calls into
\* the Driver are serialized: in no reachable state are two threads - two
\* watcher threads, or main in an initial poll and a watcher thread already
\* started - inside DriverRegistry.handle at the same time.
C26_HandleSerialized == Cardinality(InHandle) <= 1

\* every watcher thread has left its loop
AllDone == \A w \in Watchers : pc[w].at = "done"

\* C27: once stop_event is set every watcher thread eventually leaves its
\* loop; a poll that is under way goes on to its end, the thread leaving it
\* only where poll ends; a thread starts no poll with stop_event set at its
\* loop test, and none after it has left the loop; and main returns only
\* when every watcher thread has ended.
C27_StopEndsWatchers ==
    /\ stop ~> AllDone
    /\ [](pc[MainThread].at = "returned" => AllDone)
    /\ [][ \A w \in Watchers :
              /\ pc[w].at \in {"poll", "handle"} =>
                    pc'[w].at \in {"poll", "handle", "wait"}
              /\ (pc[w].at # "poll" /\ pc'[w].at = "poll") =>
                    (pc[w].at \in {"check", "handle"}
                        /\ (pc[w].at = "check" => ~stop))
              /\ pc[w].at = "done" => pc'[w].at = "done" ]_vars

\* main has returned, every watcher thread has ended, and stop_event was set
\* while a watcher thread was inside a poll
C27_Witness ==
    /\ pc[MainThread].at = "returned"
    /\ stop
    /\ AllDone
    /\ \E w \in Watchers : pc[w].caught \in {"poll", "handle"}

\* C28: in every reachable state of the Driver each tenant is held once,
\* under its namespace, with vrf.name equal to that namespace; its vrf.rd is
\* '<rd_base>:<id>' and its import_rts and export_rts are both the one-element
\* list ['<rt_base>:<id>'] for one and the same identifier id with
\* 0 <= id < max_id; and two distinct tenants never have the same rd.
C28_TenantVrfWellFormed ==
    \A i \in 1..Len(tenants) :
       /\ tenants[i].vrf.name = tenants[i].namespace
       /\ \E id \in 0..(MaxId - 1) :
             /\ tenants[i].vrf.rd = _format_rd(id)
             /\ tenants[i].vrf.import_rts = << _format_rt(id) >>
             /\ tenants[i].vrf.export_rts = << _format_rt(id) >>
       /\ \A j \in 1..Len(tenants) :
             j # i => /\ tenants[j].namespace # tenants[i].namespace
                      /\ tenants[j].vrf.rd # tenants[i].vrf.rd

\* two tenants are held, one of them on an identifier that is not its hash
C28_Witness ==
    /\ Len(tenants) = 2
    /\ \E i \in 1..2 :
          tenants[i].vrf.rd # _format_rd(_hash_namespace(tenants[i].namespace))

C30_AllocateProbesCyclically ==
    [][ \A n \in AllocNamespaces :
           (call = NoCall /\ call'.op = "allocate" /\ call'.namespace = n
               /\ n \notin DOMAIN registry) =>
              LET start == _hash_namespace(n)
                  trail == ProbeTrail(start, start, n, reverse)
                  last  == trail[Len(trail)]
                  unbound == {id \in 0..(MaxId - 1) : id \notin DOMAIN reverse}
              IN  /\ Len(trail) <= MaxId
                  /\ \A k \in 1..Len(trail) : trail[k] = (start + k - 1) % MaxId
                  /\ \A k \in 1..(Len(trail) - 1) : trail[k] \notin unbound
                  /\ call'.error = AllocatorExhausted <=> unbound = {}
                  /\ call'.error \in {NoError, AllocatorExhausted}
                  /\ IF unbound = {}
                     THEN registry' = registry /\ reverse' = reverse
                     ELSE /\ last \in unbound
                          /\ call'.result = Some(Allocation(last))
                          /\ registry' = dict_set(registry, n, Allocation(last))
                          /\ reverse' = dict_set(reverse, last, n) ]_vars

\* allocate has bound a namespace to an identifier it reached by probing past
\* its hash
C30_Witness ==
    /\ call.op = "allocate"
    /\ call.created = "first"
    /\ call.result # Some(Allocation(_hash_namespace(call.namespace)))

\* C31: used through advertise_prefixes, withdraw_prefixes,
\* withdraw_namespace, synchronize_prefixes, render and sync only, every call
\* completing, once the tenant map has been changed get_rendered_config() is
\* the text the renderer produces for the current list_tenants().
C31_RenderedConfigFollowsTenants ==
    (\E n \in Namespaces : seen_vrf[n] # {})
        => get_rendered_config = Some(RenderOf(list_tenants))

\* C32: a render whose mkdir or file write fails raises out of render(),
\* sync() and the operation that ran it (advertise_prefixes always,
\* withdraw_prefixes and withdraw_namespace on a known namespace), and stores
\* nothing: get_rendered_config() is still the text of the last render that
\* succeeded.
C32_FailedRenderPropagates ==
    [][ (call = NoCall /\ call' # NoCall /\ ~writable) =>
           /\ last_render' = last_render
           /\ get_rendered_config' = get_rendered_config
           /\ call'.op \in {"render", "sync"} => call'.error = OSError
           /\ (call'.op = "advertise_prefixes"
               /\ call'.error # AllocatorExhausted) => call'.error = OSError
           /\ (call'.op \in {"withdraw_prefixes", "withdraw_namespace"}
               /\ Known(tenants, call'.namespace)) => call'.error = OSError
           /\ call'.error = OSError =>
                 (~call'.rendered /\ call'.result = None) ]_vars

\* a Driver operation has changed the tenants, its render has failed, and the
\* stored render is an earlier one that no longer fits them
C32_Witness ==
    /\ call.op \in {"advertise_prefixes", "withdraw_prefixes",
                    "withdraw_namespace"}
    /\ call.error = OSError
    /\ last_render # None
    /\ get_rendered_config # Some(RenderOf(list_tenants))
    /\ file # Some(Get(last_render).config_text)

\* C33: a poll that a raising dispatch ends leaves the snapshot as it was; the
\* next poll, when the file still holds the same, hands on events again, and
\* when none of them raises they include every event of the failed poll, the
\* one that raised too; the watcher's thread is still running.
C33_FailedPollIsRetried ==
    /\ [](pc[Poller].at # "done")
    /\ [][ (call = NoCall /\ call' # NoCall) =>
              /\ call'.error = HandleRaised => _state' = _state
              /\ (prev.error = HandleRaised /\ prev.file = tenants_file) =>
                    /\ emitted' # <<>>
                    /\ call'.error = NoError =>
                          Range(prev.emitted) \subseteq Range(emitted') ]_vars

\* a poll of two events failed at the second, and the next poll of the same
\* file has handed on both
C33_Witness ==
    /\ prev.error = HandleRaised
    /\ Len(prev.emitted) = 2
    /\ prev.file = tenants_file
    /\ call.op = "poll"
    /\ call.error = NoError
    /\ Range(prev.emitted) \subseteq Range(emitted)

\* C34: an update after one that a raising dispatch ended, called with the
\* same mapping and completing, emits the event whose dispatch raised and the
\* events of the changes the failed update had not reached.
C34_FailedUpdateIsRetried ==
    [][ (call = NoCall /\ call' # NoCall
         /\ prev.error = HandleRaised
         /\ Get(call'.result).mapping = prev.mapping
         /\ call'.error = NoError) =>
           Range(prev.owed) \subseteq Range(emitted') ]_vars

\* the entry of namespace in a mapping is there and not empty
NonEmptyIn(mapping, namespace) ==
    \E i \in 1..Len(mapping) :
        mapping[i].namespace = namespace /\ mapping[i].prefixes # {}

\* the normalized prefixes of namespace in a mapping
NormalizedIn(mapping, namespace) ==
    {normalize_prefix(p) :
        p \in UNION {mapping[i].prefixes :
                        i \in {j \in 1..Len(mapping) :
                                  mapping[j].namespace = namespace}}}

\* the place of a normalized prefix string in Python's string order
PlaceOf(p) == CHOOSE k \in 1..Len(StringOrder) : StringOrder[k] = p

\* C36: an update that completes emits, each once, NamespaceUpsert(ns, the
\* normalized prefixes in sorted order) exactly for the namespaces whose
\* collection is not empty and differs as a set from the current entry, and
\* NamespaceDelete exactly for the current namespaces without a non-empty
\* collection; afterwards the current state is the non-empty part of the
\* mapping, normalized; an update with the mapping of the completed update
\* before it emits nothing.
C36_UpdateEmitsTheDifference ==
    [][ (call = NoCall /\ call' # NoCall /\ call'.error = NoError) =>
           LET mapping == Get(call'.result).mapping
               upserted == {n \in Namespaces :
                               /\ NonEmptyIn(mapping, n)
                               /\ current_get(_current, n)
                                     # Some(NormalizedIn(mapping, n))}
               deleted == {n \in Namespaces :
                              /\ current_get(_current, n) # None
                              /\ ~NonEmptyIn(mapping, n)}
           IN  /\ Len(emitted') = Cardinality(upserted) + Cardinality(deleted)
               /\ \A n \in upserted : \E k \in 1..Len(emitted') :
                     /\ emitted'[k].kind = "NamespaceUpsert"
                     /\ emitted'[k].namespace = n
                     /\ Range(emitted'[k].prefixes) = NormalizedIn(mapping, n)
                     /\ \A i, j \in 1..Len(emitted'[k].prefixes) :
                           i < j => PlaceOf(emitted'[k].prefixes[i])
                                       < PlaceOf(emitted'[k].prefixes[j])
               /\ \A n \in deleted : NamespaceDelete(n) \in Range(emitted')
               /\ \A n \in Namespaces :
                     current_get(_current', n) =
                        IF NonEmptyIn(mapping, n)
                        THEN Some(NormalizedIn(mapping, n)) ELSE None
               /\ (prev.error = NoError /\ prev.mapping = mapping) =>
                     emitted' = <<>> ]_vars

\* an update has completed whose mapping holds an empty collection for a
\* current namespace, which it deleted, and two prefixes for the other, one
\* of them without a mask, which it upserted sorted
C36_Witness ==
    /\ call.op = "update"
    /\ call.error = NoError
    /\ \E i \in 1..Len(Get(call.result).mapping) :
          /\ Get(call.result).mapping[i].namespace = "tenant-a"
          /\ Get(call.result).mapping[i].prefixes = {}
    /\ NamespaceDelete("tenant-a") \in Range(emitted)
    /\ NamespaceUpsert("tenant-b", << Bare4Masked, Masked >>) \in Range(emitted)
    /\ current_get(_current, "tenant-a") = None

\* the Driver holds what a document says: its namespaces, for each the
\* de-duplicated prefix list, and a rendered config that is the text for them
Converged(document) ==
    LET desired == _extract_state(document)
    IN  /\ {tenants[i].namespace : i \in 1..Len(tenants)} = Keys(desired)
        /\ \A i \in 1..Len(desired) :
              StoredPrefixes(tenants, desired[i].namespace) = desired[i].prefixes
        /\ (tenants # <<>> \/ last_render # None) =>
              get_rendered_config = Some(RenderOf(tenants))

\* C35: when the tenants file ends up holding a valid document for good and
\* the watcher keeps polling, the Driver ends up, for good, with the tenants,
\* the prefix lists and the rendered config of that document.
C35_DriverConvergesToFile ==
    \A document \in {d \in FeedDocuments : d.json /\ d.tenants # None} :
        <>[](tenants_file = Some(document)) => <>[]Converged(document)

\* line k of text is the first line of a section that is not the first
\* section of the text: the neighbour block, the group of VRF blocks, the
\* route-map stanzas, or 'line vty'
OpensLaterSection(text, k) ==
    /\ k > 1
    /\ SectionRank(text[k]) > 1
    /\ \A j \in 1..(k - 1) : SectionRank(text[j]) # SectionRank(text[k])

\* C37: in the rendered text every section after the first begins after a
\* blank line.
C37_SectionsSeparatedByBlankLine ==
    file # None =>
        \A k \in 1..Len(Get(file)) :
            OpensLaterSection(Get(file), k) => Get(file)[k - 1] = ""

\* the file is missing, is no JSON, or has no "tenants" key
Unusable(content) ==
    content = None \/ ~Get(content).json \/ Get(content).tenants = None

\* the entries of a document that name namespace
EntriesOf(document, namespace) ==
    SelectSeq(Get(document.tenants),
              LAMBDA tenant : tenant.namespace = Some(namespace))

\* C39: a poll of a file that is missing, is no JSON or has no "tenants" key
\* returns without an event and with the snapshot it found; a poll of a file
\* with an entry that names no namespace reads every other entry as if that
\* one were not there: each namespace with the de-duplicated prefixes of its
\* last entry.
C39_UnusableFileChangesNothing ==
    [][ (call = NoCall /\ call' # NoCall) =>
           IF Unusable(tenants_file)
           THEN /\ emitted' = <<>>
                /\ _state' = _state
                /\ call'.error = NoError
                /\ call'.result = None
           ELSE \A n \in Namespaces :
                   LET entries == EntriesOf(Get(tenants_file), n)
                   IN  state_get(Get(call'.result), n) =
                          IF entries = <<>> THEN None
                          ELSE Some(dict_fromkeys(entries[Len(entries)].prefixes))
      ]_vars

\* a poll that found no usable file has returned while the snapshot holds
\* namespaces of an earlier poll
C39_Witness ==
    /\ call.op = "poll"
    /\ call.result = None
    /\ Unusable(tenants_file)
    /\ _state # <<>>
    /\ emitted = <<>>

\* C38: with the threads' steps interleaved, no two namespaces are bound to
\* one identifier, and a tenant once in the tenant map stays in it.
C38_InterleavedAllocationsDistinct ==
    /\ [](\A n1, n2 \in DOMAIN registry :
             n1 # n2 => registry[n1] # registry[n2])
    /\ [][\A n \in AllocNamespaces :
             Known(tenants, n) => Known(tenants', n)]_vars

\* C40: withdraw_ip for a row whose namespace has no tracked IP raises no
\* error and changes neither the tracking nor the Driver's tenants; and
\* between calls a namespace is a Driver tenant exactly when its tracked IP
\* set is not empty.
C40_WithdrawUntrackedIsNoOp ==
    /\ [][ (UpstreamIdle /\ dispatch'.op = "withdraw_ip"
            /\ dispatch'.name \in Namespaces
            /\ (ips_get(_namespace_ips, dispatch'.name) = None
                \/ ips_get(_namespace_ips, dispatch'.name) = Some({}))) =>
              /\ dispatch'.error = NoError
              /\ dispatch'.pending = <<>>
              /\ UNCHANGED << _namespace_ips, tenants >> ]_vars
    /\ [](UpstreamIdle =>
             \A n \in Namespaces :
                Known(tenants, n) <=>
                   (ips_get(_namespace_ips, n) # None
                    /\ ips_get(_namespace_ips, n) # Some({})))

====
